---- MODULE Spec2Model ----
(***************************************************************************)
(* Verification model of the revision-control core of jj:                  *)
(*   - the composite commit index   (lib/src/default_index/composite.rs)   *)
(*   - the byte diff engine         (lib/src/diff.rs)                      *)
(*   - the absorb hunk splitter     (lib/src/absorb.rs)                    *)
(*   - the commit builder           (lib/src/commit_builder.rs)            *)
(*   - the conflict markers         (lib/src/conflicts.rs, by its tests)   *)
(*   - Merge values                 (lib/src/merge.rs, by its tests)       *)
(* Each subsystem has its own specification (SpecIndex, SpecDiff, ...)     *)
(* over its own variables; the variables of the other subsystems stay at   *)
(* their initial values.                                                   *)
(***************************************************************************)
EXTENDS Integers, Sequences, FiniteSets, TLC

VARIABLES
    \* ---- composite index ----
    parent_positions,   \* sequence: parent_positions[p+1] = set of parent positions of p
    generation_number,  \* sequence: generation_number[p+1] = generation of position p
    query,              \* the last index query and what it returned
    \* ---- diff ----
    diff_inputs,        \* <<base_input, other_inputs...>> of the Diff
    built_with,         \* tokenizer and comparator of the construction
    unchanged_positions,\* the unchanged word positions found by the construction
    unchanged_regions,  \* Diff::unchanged_regions
    \* ---- absorb ----
    annotation_ranges,  \* sequence of [commit, range] over the left text, compacted
    selected_ranges,    \* what split_file_hunks returned
    \* ---- commit builder ----
    store,              \* the ids of the backend commits written
    mut_repo,           \* MutableRepo: index, heads, predecessors, parent mapping
    builder,            \* the DetachedCommitBuilder in hand
    write_result,       \* the last call on a builder and what it returned
    \* ---- conflict markers ----
    file_ids,           \* the conflict: the contents of its files, as a Merge
    materialized,       \* the style and the output of the materialization
    update_result,      \* the style and the Merge update_from_content returned
    \* ---- Merge values ----
    merge_values,       \* the terms of a Merge: adds at odd, removes at even places
    simplify_results,   \* the results of the successive calls of simplify
    \* ---- id prefixes over the index segments ----
    index_segments,     \* the chain of segments, the child first; a segment is
                        \* the sequence of its local entries
    prefix_query,       \* the last prefix query and what it returned
    \* ---- ChangeIdIndexImpl shared by threads ----
    change_index,       \* the index of the wrapper: its chain of segments
    reachable_set,      \* the AncestorsBitSet behind the mutex
    mutex_owner,        \* the thread that holds the lock, 0 if none
    callers,            \* per thread: where its resolve_prefix call stands
    \* ---- concurrent transactions on one operation log ----
    op_heads,           \* the operations of the op heads store
    commit_store,       \* the commits written to the backend
    transactions,       \* per thread: its repo instance and transaction
    head_repo,          \* the repo reloaded at head after the threads
    \* ---- one working copy, several workspace instances ----
    wc_disk,            \* the working-copy state on disk and its lock
    workspaces,         \* per instance: the state it read last, its call
    \* ---- absorb_hunks over the commit graph ----
    absorb_source,      \* the graph, the source and the selected hunks
    rewrite,            \* what transform_descendants has rewritten so far
    \* ---- split_hunks_to_trees over the changed paths ----
    diff_stream,        \* the entries of the tree diff: the two values of a path
    selected_trees,     \* where the loop stands, target_commits and skipped_paths
    \* ---- parse_conflict on edited marker regions ----
    parse_input,        \* the lines between the markers and the expected sides
    parse_result,       \* the content parsed and what parse_conflict returned
    \* ---- find_lcs on permutations ----
    lcs_input,          \* input[i]: the left position of the right position i
    lcs_result          \* the pairs find_lcs returned

idxVars == <<parent_positions, generation_number, query>>

diffVars == <<diff_inputs, built_with, unchanged_positions, unchanged_regions>>

absorbVars == <<annotation_ranges, selected_ranges>>

commitVars == <<store, mut_repo, builder, write_result>>

conflictVars == <<file_ids, materialized, update_result>>

mergeVars == <<merge_values, simplify_results>>

\* The variables of the subsystems that follow the conflict markers.
prefixVars == <<index_segments, prefix_query>>

changeIdVars == <<change_index, reachable_set, mutex_owner, callers>>

txVars == <<op_heads, commit_store, transactions, head_repo>>

wcVars == <<wc_disk, workspaces>>

rewriteVars == <<absorb_source, rewrite>>

splitVars == <<diff_stream, selected_trees>>

\* The variables of the subsystems that follow absorb_hunks.
parseVars == <<parse_input, parse_result>>

lcsVars == <<lcs_input, lcs_result>>

lateVars == <<splitVars, parseVars, lcsVars>>

restVars == <<mergeVars, prefixVars, changeIdVars, txVars, wcVars, rewriteVars, lateVars>>

vars == <<idxVars, diffVars, absorbVars, commitVars, conflictVars, restVars>>

\* The variables outside of each component.
outsideIndex == <<diffVars, absorbVars, commitVars, conflictVars, restVars>>

outsideDiff == <<idxVars, absorbVars, commitVars, conflictVars, restVars>>

outsideAbsorb == <<idxVars, diffVars, commitVars, conflictVars, restVars>>

outsideCommit == <<idxVars, diffVars, absorbVars, conflictVars, restVars>>

outsideConflict == <<idxVars, absorbVars, commitVars, restVars>>

\* The variables of the first five subsystems.
coreVars == <<idxVars, diffVars, absorbVars, commitVars, conflictVars>>

outsideMerge == <<coreVars, prefixVars, changeIdVars, txVars, wcVars, rewriteVars, lateVars>>

outsidePrefix == <<coreVars, mergeVars, changeIdVars, txVars, wcVars, rewriteVars, lateVars>>

outsideChangeId == <<coreVars, mergeVars, prefixVars, txVars, wcVars, rewriteVars, lateVars>>

outsideTx == <<coreVars, mergeVars, prefixVars, changeIdVars, wcVars, rewriteVars, lateVars>>

outsideWc == <<coreVars, mergeVars, prefixVars, changeIdVars, txVars, rewriteVars, lateVars>>

outsideRewrite == <<coreVars, mergeVars, prefixVars, changeIdVars, txVars, wcVars, lateVars>>

\* The variables of the subsystems between the conflict markers and
\* split_hunks_to_trees.
midVars == <<mergeVars, prefixVars, changeIdVars, txVars, wcVars, rewriteVars>>

outsideSplit == <<coreVars, midVars, parseVars, lcsVars>>

outsideParse == <<coreVars, midVars, splitVars, lcsVars>>

outsideLcs == <<coreVars, midVars, splitVars, parseVars>>

(***************************************************************************)
(* Generic helpers                                                         *)
(***************************************************************************)
Max(a, b) == IF a >= b THEN a ELSE b
Min(a, b) == IF a <= b THEN a ELSE b

SetMax(S) == CHOOSE x \in S : \A y \in S : y <= x
SetMin(S) == CHOOSE x \in S : \A y \in S : x <= y

RECURSIVE SetToDescSeq(_)
\* The elements of a finite set of integers, greatest first.
SetToDescSeq(S) ==
    IF S = {} THEN <<>> ELSE <<SetMax(S)>> \o SetToDescSeq(S \ {SetMax(S)})

RECURSIVE SetToAscSeq(_)
SetToAscSeq(S) ==
    IF S = {} THEN <<>> ELSE <<SetMin(S)>> \o SetToAscSeq(S \ {SetMin(S)})

SeqToSet(s) == {s[i] : i \in 1..Len(s)}

StrictlyDescending(s) == \A i \in 1..(Len(s) - 1) : s[i] > s[i + 1]

(***************************************************************************)
(* Bounds of the index model                                               *)
(***************************************************************************)
\* Number of commits the index may hold.
MaxCommits == 4
\* Number of positions (duplicates counted) in one input of a set query.
MaxSetLen == 2

(***************************************************************************)
(* Composite index: entries                                                *)
(***************************************************************************)
\* CompositeIndex::num_commits
NumCommits == Len(parent_positions)

Positions == 0..(NumCommits - 1)

\* IndexEntry::parent_positions of entry_by_pos(pos)
ParentPositions(pos) == parent_positions[pos + 1]

\* IndexEntry::generation_number of entry_by_pos(pos)
GenerationNumber(pos) == generation_number[pos + 1]

\* The generation of a new commit: 0 for a root, else 1 + max over parents.
NewGeneration(ps) ==
    IF ps = {} THEN 0 ELSE 1 + SetMax({GenerationNumber(p) : p \in ps})

(***************************************************************************)
(* BinaryHeap<IndexPosition>: a max-heap, kept as the sequence of its      *)
(* items greatest first (duplicates adjacent).                             *)
(***************************************************************************)
RECURSIVE HeapPush(_, _)
\* BinaryHeap::push
HeapPush(heap, item) ==
    IF heap = <<>> THEN <<item>>
    ELSE IF item >= Head(heap) THEN <<item>> \o heap
    ELSE <<Head(heap)>> \o HeapPush(Tail(heap), item)

RECURSIVE HeapFrom(_)
\* BinaryHeap::from(vec) / BinaryHeap::extend
HeapFrom(items) ==
    IF items = <<>> THEN <<>> ELSE HeapPush(HeapFrom(Tail(items)), Head(items))

RECURSIVE HeapExtend(_, _)
HeapExtend(heap, items) ==
    IF items = <<>> THEN heap ELSE HeapExtend(HeapPush(heap, Head(items)), Tail(items))

RECURSIVE remove_dup(_, _)
\* Pops while the greatest item equals `item`.
remove_dup(heap, item) ==
    IF heap # <<>> /\ Head(heap) = item THEN remove_dup(Tail(heap), item) ELSE heap

\* Removes the greatest items (including duplicates) from the heap.
\* Only called on a non-empty heap (the callers unwrap()).
dedup_pop(heap) == remove_dup(Tail(heap), Head(heap))

\* Replaces the greatest item by the lesser new_item, then removes the
\* duplicates of the old greatest item.
dedup_replace(heap, new_item) ==
    HeapPush(remove_dup(Tail(heap), Head(heap)), new_item)

\* A shift that forgets the parents after the first one.
shift_to_first_parent(items, pos) ==
    LET ps == SetToAscSeq(ParentPositions(pos)) IN
    IF ps = <<>> THEN dedup_pop(items) ELSE dedup_replace(items, Head(ps))

\* Removes the entry at the top of the queue and replaces it with its parents.
shift_to_parents(items, pos) ==
    LET ps == SetToAscSeq(ParentPositions(pos)) IN
    IF ps = <<>> THEN dedup_pop(items)
    ELSE HeapExtend(dedup_replace(items, Head(ps)), Tail(ps))

(***************************************************************************)
(* CompositeIndex::is_ancestor_pos                                         *)
(***************************************************************************)
\* A pruning test that is off by one generation.
PruneByGenerationOffByOne(descendant_generation, ancestor_generation) ==
    descendant_generation <= ancestor_generation + 1

\* The pruning test of the walk: a descendant whose generation is not above
\* the ancestor's cannot have the ancestor among its proper ancestors.
PruneByGeneration(descendant_generation, ancestor_generation) ==
    descendant_generation <= ancestor_generation

RECURSIVE IsAncestorWalk(_, _, _)
\* The `while let Some(descendant_pos) = work.pop()` loop; `work` is a
\* stack (last element popped first), `visited` a set.
IsAncestorWalk(ancestor_pos, work, visited) ==
    IF work = <<>> THEN FALSE
    ELSE LET descendant_pos == work[Len(work)]
             rest == SubSeq(work, 1, Len(work) - 1)
         IN  IF descendant_pos = ancestor_pos THEN TRUE
             ELSE IF descendant_pos \in visited
                  THEN IsAncestorWalk(ancestor_pos, rest, visited)
             ELSE IF PruneByGeneration(GenerationNumber(descendant_pos),
                                       GenerationNumber(ancestor_pos))
                  THEN IsAncestorWalk(ancestor_pos, rest, visited \cup {descendant_pos})
             ELSE IsAncestorWalk(ancestor_pos,
                                 rest \o SetToAscSeq(ParentPositions(descendant_pos)),
                                 visited \cup {descendant_pos})

is_ancestor_pos(ancestor_pos, descendant_pos) ==
    IsAncestorWalk(ancestor_pos, <<descendant_pos>>, {})

(***************************************************************************)
(* CompositeIndex::heads_pos                                               *)
(***************************************************************************)
\* A cutoff that is off by one generation.
BelowMinGenerationOffByOne(generation, min_generation) ==
    generation <= min_generation + 1

\* The cutoff of the heads walk: a known ancestor at or below the least
\* generation of the candidates is dropped instead of expanded.
BelowMinGeneration(generation, min_generation) == generation <= min_generation

RECURSIVE HeadsInner(_, _, _)
\* The inner `while let Some(&parent) = parents.peek().filter(>= candidate)`
\* loop for one candidate. Returns the heap and whether the candidate was
\* found to be an ancestor of a head (`continue 'outer`).
HeadsInner(parents, candidate, min_generation) ==
    IF parents = <<>> \/ Head(parents) < candidate
    THEN [parents |-> parents, skip |-> FALSE]
    ELSE LET parent == Head(parents)
             shifted == IF BelowMinGeneration(GenerationNumber(parent), min_generation)
                        THEN dedup_pop(parents)
                        ELSE shift_to_parents(parents, parent)
         IN  IF parent = candidate
             THEN [parents |-> shifted, skip |-> TRUE]
             ELSE HeadsInner(shifted, candidate, min_generation)

RECURSIVE HeadsOuter(_, _, _, _)
\* The `'outer: for candidate in candidate_positions` loop.
HeadsOuter(candidates, parents, heads, min_generation) ==
    IF candidates = <<>> THEN heads
    ELSE LET candidate == Head(candidates)
             r == HeadsInner(parents, candidate, min_generation)
         IN  IF r.skip
             THEN HeadsOuter(Tail(candidates), r.parents, heads, min_generation)
             ELSE HeadsOuter(Tail(candidates),
                             HeapExtend(r.parents, SetToAscSeq(ParentPositions(candidate))),
                             Append(heads, candidate),
                             min_generation)

heads_pos(candidate_positions) ==
    IF candidate_positions = <<>> THEN candidate_positions
    ELSE HeadsOuter(candidate_positions, <<>>, <<>>,
                    SetMin({GenerationNumber(candidate_positions[i]) :
                                i \in 1..Len(candidate_positions)}))

(***************************************************************************)
(* CompositeIndex::common_ancestors_pos                                    *)
(***************************************************************************)
RECURSIVE CommonAncestorsWalk(_, _, _)
\* The lockstep walk over the two heaps; returns the raw matches.
CommonAncestorsWalk(items1, items2, result) ==
    IF items1 = <<>> \/ items2 = <<>> THEN result
    ELSE LET pos1 == Head(items1)
             pos2 == Head(items2)
         IN  IF pos1 > pos2
             THEN CommonAncestorsWalk(shift_to_parents(items1, pos1), items2, result)
             ELSE IF pos1 < pos2
             THEN CommonAncestorsWalk(items1, shift_to_parents(items2, pos2), result)
             ELSE CommonAncestorsWalk(dedup_pop(items1), dedup_pop(items2),
                                      Append(result, pos1))

common_ancestors_pos(set1, set2) ==
    heads_pos(CommonAncestorsWalk(HeapFrom(set1), HeapFrom(set2), <<>>))

(***************************************************************************)
(* Index specification: the index grows by appended commits, and the       *)
(* ancestry queries are asked of it.                                       *)
(***************************************************************************)
NoQuery == [op |-> "none"]

\* The index before any commit is added.
IdleIndex ==
    /\ parent_positions = <<>>
    /\ generation_number = <<>>
    /\ query = NoQuery

\* The Diff has not been constructed yet.
NotBuilt == [tokenizer |-> "unbuilt", compare |-> "unbuilt"]

\* No Diff is under construction.
IdleDiff ==
    /\ diff_inputs = <<>>
    /\ built_with = NotBuilt
    /\ unchanged_positions = <<>>
    /\ unchanged_regions = <<>>

\* split_file_hunks has not been called.
NotSplit == [called |-> FALSE]

IdleAbsorb ==
    /\ annotation_ranges = <<>>
    /\ selected_ranges = NotSplit

\* No repository is loaded, no builder is in hand, nothing was called.
NoRepo == [loaded |-> FALSE]

NoBuilder == [made |-> FALSE]

NoCall == [op |-> "none"]

IdleCommit ==
    /\ store = <<>>
    /\ mut_repo = NoRepo
    /\ builder = NoBuilder
    /\ write_result = NoCall

\* No conflict is at hand, nothing is materialized or parsed.
NoConflict == [made |-> FALSE]

NotDone == [done |-> FALSE]

IdleConflict ==
    /\ file_ids = NoConflict
    /\ materialized = NotDone
    /\ update_result = NotDone

\* No Merge value is at hand.
IdleMerge ==
    /\ merge_values = <<>>
    /\ simplify_results = <<>>

\* No segment is loaded and no prefix was resolved.
IdlePrefix ==
    /\ index_segments = <<>>
    /\ prefix_query = NoQuery

\* No wrapper was constructed.
IdleChangeId ==
    /\ change_index = <<>>
    /\ reachable_set = <<>>
    /\ mutex_owner = 0
    /\ callers = <<>>

\* No workspace was initialized.
IdleTx ==
    /\ op_heads = {}
    /\ commit_store = {}
    /\ transactions = <<>>
    /\ head_repo = NoQuery

\* No working copy.
IdleWc ==
    /\ wc_disk = NoQuery
    /\ workspaces = <<>>

\* No absorb_hunks call.
IdleRewrite ==
    /\ absorb_source = NoQuery
    /\ rewrite = NoQuery

\* split_hunks_to_trees was not called.
IdleSplit ==
    /\ diff_stream = <<>>
    /\ selected_trees = NoQuery

\* parse_conflict was not called.
IdleParse ==
    /\ parse_input = NoQuery
    /\ parse_result = NoQuery

\* find_lcs was not called.
IdleLcs ==
    /\ lcs_input = <<>>
    /\ lcs_result = NoQuery

\* The subsystems that follow absorb_hunks are idle.
IdleLate == IdleSplit /\ IdleParse /\ IdleLcs

\* The subsystems between the conflict markers and split_hunks_to_trees
\* are idle.
IdleMid == IdleMerge /\ IdlePrefix /\ IdleChangeId /\ IdleTx /\ IdleWc /\ IdleRewrite

\* The subsystems that follow the conflict markers are idle.
IdleRest == IdleMid /\ IdleLate

\* The first five subsystems are idle.
IdleCore == IdleIndex /\ IdleDiff /\ IdleAbsorb /\ IdleCommit /\ IdleConflict

InitIndex == IdleCore /\ IdleRest

\* A commit is appended at the next position; its parents are commits that
\* are already indexed, and its generation is stored with it. Only the root
\* commit (the first one) has no parents: every commit written through the
\* commit builder has at least one (commit_builder.rs, for_new_commit and
\* set_parents assert !parents.is_empty()).
AddCommit(ps) ==
    /\ NumCommits < MaxCommits
    /\ UNCHANGED outsideIndex
    /\ (ps = {}) <=> (NumCommits = 0)
    /\ parent_positions' = Append(parent_positions, ps)
    /\ generation_number' = Append(generation_number, NewGeneration(ps))
    /\ query' = NoQuery

\* The queries read the index and change nothing; the model records one
\* query and its result at a time, until the index grows again.

\* Input vectors of the set queries. BinaryHeap::from discards the order of
\* the vector, so one vector per multiset is drawn (greatest first).
RECURSIVE VecsOfLen(_)
VecsOfLen(n) ==
    IF n = 0 THEN {<<>>}
    ELSE {<<p>> \o v : p \in Positions, v \in VecsOfLen(n - 1)}

PositionVecs ==
    {v \in UNION {VecsOfLen(n) : n \in 0..MaxSetLen} :
        \A i \in 1..(Len(v) - 1) : v[i] >= v[i + 1]}

IsAncestorQuery ==
    /\ query = NoQuery
    /\ UNCHANGED outsideIndex
    /\ \E a \in Positions, d \in Positions :
          query' = [op |-> "is_ancestor", ancestor_pos |-> a, descendant_pos |-> d,
                    result |-> is_ancestor_pos(a, d)]
    /\ UNCHANGED <<parent_positions, generation_number>>

CommonAncestorsQuery ==
    /\ query = NoQuery
    /\ UNCHANGED outsideIndex
    /\ \E set1 \in PositionVecs, set2 \in PositionVecs :
          query' = [op |-> "common_ancestors", set1 |-> set1, set2 |-> set2,
                    result |-> common_ancestors_pos(set1, set2)]
    /\ UNCHANGED <<parent_positions, generation_number>>

\* The candidates of heads_pos are sorted in descending order and have no
\* duplicates (its debug_assert).
HeadsQuery ==
    /\ query = NoQuery
    /\ UNCHANGED outsideIndex
    /\ \E S \in SUBSET Positions :
          query' = [op |-> "heads", candidates |-> SetToDescSeq(S),
                    result |-> heads_pos(SetToDescSeq(S))]
    /\ UNCHANGED <<parent_positions, generation_number>>

NextIndex ==
    \/ \E ps \in SUBSET Positions : AddCommit(ps)
    \/ IsAncestorQuery
    \/ CommonAncestorsQuery
    \/ HeadsQuery

SpecIndex == InitIndex /\ [][NextIndex]_vars

(***************************************************************************)
(* Ancestry by definition: reachability over parent edges, computed        *)
(* without generation numbers.                                             *)
(***************************************************************************)
RECURSIVE AncestorsOrSelf(_)
AncestorsOrSelf(S) ==
    LET next == S \cup UNION {ParentPositions(p) : p \in S}
    IN  IF next = S THEN S ELSE AncestorsOrSelf(next)

ProperAncestor(a, d) == a # d /\ a \in AncestorsOrSelf({d})

\* C1: is_ancestor_pos(a, d) is true exactly when a is reachable from d over
\* zero or more parent edges; the generation pruning cuts no path to a.
C1_IsAncestorIffReachable ==
    query.op = "is_ancestor" =>
        (query.result <=> query.ancestor_pos \in AncestorsOrSelf({query.descendant_pos}))

\* A proper ancestor was found although a sibling branch was pruned.
C1_Witness ==
    /\ query.op = "is_ancestor"
    /\ query.result
    /\ query.ancestor_pos # query.descendant_pos
    /\ \E p \in ParentPositions(query.descendant_pos) :
          /\ p # query.ancestor_pos
          /\ PruneByGeneration(GenerationNumber(p), GenerationNumber(query.ancestor_pos))

CommonAncestorSet(set1, set2) ==
    AncestorsOrSelf(SeqToSet(set1)) \cap AncestorsOrSelf(SeqToSet(set2))

\* C2: common_ancestors_pos returns exactly the greatest common ancestors,
\* in strictly descending position order: each result is a common ancestor,
\* no result is an ancestor of another, and every common ancestor is an
\* ancestor-or-self of some result.
C2_GreatestCommonAncestors ==
    query.op = "common_ancestors" =>
        LET ca == CommonAncestorSet(query.set1, query.set2)
            res == SeqToSet(query.result)
        IN  /\ res \subseteq ca
            /\ \A x \in res, y \in res : ~ProperAncestor(x, y)
            /\ \A c \in ca : \E r \in res : c \in AncestorsOrSelf({r})
            /\ StrictlyDescending(query.result)

\* Inputs with a duplicate, two greatest common ancestors.
C2_Witness ==
    /\ query.op = "common_ancestors"
    /\ Len(query.set1) = 2 /\ query.set1[1] = query.set1[2]
    /\ Len(query.result) = 2
    /\ query.result[1] \notin SeqToSet(query.set1)

\* C3: heads_pos keeps exactly the candidates that are not a proper ancestor
\* of another candidate, in descending order.
C3_HeadsOfCandidates ==
    query.op = "heads" =>
        LET cands == SeqToSet(query.candidates)
        IN  query.result =
                SetToDescSeq({c \in cands : \A d \in cands : ~ProperAncestor(c, d)})

\* A candidate that is an ancestor of another was dropped, and a candidate
\* with the least generation was kept.
C3_Witness ==
    /\ query.op = "heads"
    /\ Len(query.result) >= 2
    /\ Len(query.result) < Len(query.candidates)

(***************************************************************************)
(***************************************************************************)
(* Byte diff engine (lib/src/diff.rs)                                      *)
(*                                                                         *)
(* A text is a sequence of bytes. A Range<usize> is a record [start, end]  *)
(* (0-based, end exclusive), as in the source.                             *)
(***************************************************************************)
(***************************************************************************)
\* The bytes the inputs are made of: a word byte and the line terminator
\* (a non-word, whitespace byte).
Bytes == {"a", "\n"}

Range(start, end) == [start |-> start, end |-> end]

RangeIsEmpty(r) == r.start >= r.end

\* &text[range]
Slice(text, r) == SubSeq(text, r.start + 1, r.end)

RECURSIVE Concat(_)
\* The concatenation of a sequence of byte strings.
Concat(seqs) == IF seqs = <<>> THEN <<>> ELSE Head(seqs) \o Concat(Tail(seqs))

\* Of the bytes of a text (ASCII letters, space, line feed) the letters are
\* word bytes.
is_word_byte(b) == b \notin {" ", "\n"}

\* u8::is_ascii_whitespace on those bytes
is_ascii_whitespace(b) == b \in {" ", "\n"}

RECURSIVE LineRangesFrom(_, _, _)
\* split_inclusive on '\n' from byte offset `start`; `i` scans forward.
LineRangesFrom(text, start, i) ==
    IF i >= Len(text)
    THEN IF start < Len(text) THEN <<Range(start, Len(text))>> ELSE <<>>
    ELSE IF text[i + 1] = "\n"
         THEN <<Range(start, i + 1)>> \o LineRangesFrom(text, i + 1, i + 1)
         ELSE LineRangesFrom(text, start, i + 1)

find_line_ranges(text) == LineRangesFrom(text, 0, 0)

RECURSIVE WordRangesFrom(_, _, _, _)
\* The scan of find_word_ranges: `i` is the byte index, `in_word` and
\* `word_start_pos` the loop state.
WordRangesFrom(text, i, in_word, word_start_pos) ==
    IF i >= Len(text)
    THEN IF in_word /\ word_start_pos < Len(text)
         THEN <<Range(word_start_pos, Len(text))>> ELSE <<>>
    ELSE IF in_word /\ ~is_word_byte(text[i + 1])
         THEN <<Range(word_start_pos, i)>> \o WordRangesFrom(text, i + 1, FALSE, i)
    ELSE IF ~in_word /\ is_word_byte(text[i + 1])
         THEN WordRangesFrom(text, i + 1, TRUE, i)
    ELSE WordRangesFrom(text, i + 1, in_word, word_start_pos)

find_word_ranges(text) == WordRangesFrom(text, 0, FALSE, 0)

RECURSIVE NonwordRangesFrom(_, _)
NonwordRangesFrom(text, i) ==
    IF i >= Len(text) THEN <<>>
    ELSE IF ~is_word_byte(text[i + 1])
         THEN <<Range(i, i + 1)>> \o NonwordRangesFrom(text, i + 1)
         ELSE NonwordRangesFrom(text, i + 1)

find_nonword_ranges(text) == NonwordRangesFrom(text, 0)

\* The tokenizers the library passes to Diff::for_tokenizer: by_line,
\* by_word / diff (word, then non-word refinement), unrefined (no tokens).
Tokenizers == {"line", "word", "nonword", "none"}

Tokenize(tokenizer, text) ==
    CASE tokenizer = "line"    -> find_line_ranges(text)
      [] tokenizer = "word"    -> find_word_ranges(text)
      [] tokenizer = "nonword" -> find_nonword_ranges(text)
      [] tokenizer = "none"    -> <<>>

\* The comparison objects: CompareBytesExactly, CompareBytesIgnoreAllWhitespace.
Comparators == {"exactly", "ignore_all_whitespace"}

\* bytes_ignore_all_whitespace
bytes_ignore_all_whitespace(text) == SelectSeq(text, LAMBDA b : ~is_ascii_whitespace(b))

\* CompareBytes::eq
CompareEq(compare, left, right) ==
    IF compare = "exactly" THEN left = right
    ELSE bytes_ignore_all_whitespace(left) = bytes_ignore_all_whitespace(right)

\* DiffSource: the text and its token ranges; local() views all of it.
\* A LocalDiffSource is [text, ranges, global_offset].
DiffSource(text, ranges) == [text |-> text, ranges |-> ranges, global_offset |-> 0]

\* LocalDiffSource::narrowed(start..end), in local word positions
narrowed(source, start, end) ==
    [text |-> source.text,
     ranges |-> SubSeq(source.ranges, start + 1, end),
     global_offset |-> source.global_offset + start]

\* LocalDiffSource::map_to_global
map_to_global(source, position) == source.global_offset + position

\* The text of the word at a local position.
WordAt(source, position) == Slice(source.text, source.ranges[position + 1])

NumWords(source) == Len(source.ranges)

(***************************************************************************)
(* find_lcs                                                                *)
(***************************************************************************)
\* chain entries are [len, left_pos, prev]; prev = -1 stands for usize::MAX
\* (no previous element).
RECURSIVE LcsInnerBreakAtFirst(_, _, _, _, _, _)
\* An inner loop that breaks at the first longer chain, be it the longest
\* so far or not.
LcsInnerBreakAtFirst(chain, right_pos, left_pos, i, here, glob) ==
    IF i < 0 THEN [here |-> here, glob |-> glob]
    ELSE LET previous == chain[i + 1]
             len == previous.len + 1
         IN  IF previous.left_pos < left_pos /\ len > here.len
             THEN [here |-> [len |-> len, prev |-> i],
                   glob |-> IF len > glob.longest
                            THEN [longest |-> len, right_pos |-> right_pos]
                            ELSE glob]
             ELSE LcsInnerBreakAtFirst(chain, right_pos, left_pos, i - 1, here, glob)

RECURSIVE LcsInner(_, _, _, _, _, _)
\* The `for i in (0..right_pos).rev()` loop for one right_pos. `glob` is
\* [longest, right_pos] (global_longest, global_longest_right_pos).
LcsInner(chain, right_pos, left_pos, i, here, glob) ==
    IF i < 0 THEN [here |-> here, glob |-> glob]
    ELSE LET previous == chain[i + 1]
             len == previous.len + 1
         IN  IF previous.left_pos < left_pos /\ len > here.len
             THEN IF len > glob.longest
                  THEN \* the longest chain so far: break
                       [here |-> [len |-> len, prev |-> i],
                        glob |-> [longest |-> len, right_pos |-> right_pos]]
                  ELSE LcsInner(chain, right_pos, left_pos, i - 1,
                                [len |-> len, prev |-> i], glob)
             ELSE LcsInner(chain, right_pos, left_pos, i - 1, here, glob)

RECURSIVE LcsChain(_, _, _, _)
\* The outer loop over (right_pos, left_pos); returns [chain, glob].
LcsChain(input, right_pos, chain, glob) ==
    IF right_pos >= Len(input) THEN [chain |-> chain, glob |-> glob]
    ELSE LET left_pos == input[right_pos + 1]
             r == LcsInner(chain, right_pos, left_pos, right_pos - 1,
                           [len |-> 1, prev |-> -1], glob)
         IN  LcsChain(input, right_pos + 1,
                      Append(chain, [len |-> r.here.len, left_pos |-> left_pos,
                                     prev |-> r.here.prev]),
                      r.glob)

RECURSIVE LcsBacktrack(_, _)
\* The final loop, already reversed: pairs <<left_pos, right_pos>> ascending.
LcsBacktrack(chain, right_pos) ==
    LET e == chain[right_pos + 1]
    IN  IF e.prev = -1 THEN <<<<e.left_pos, right_pos>>>>
        ELSE Append(LcsBacktrack(chain, e.prev), <<e.left_pos, right_pos>>)

find_lcs(input) ==
    IF input = <<>> THEN <<>>
    ELSE LET r == LcsChain(input, 0, <<>>, [longest |-> 0, right_pos |-> 0])
         IN  LcsBacktrack(r.chain, r.glob.right_pos)

(***************************************************************************)
(* Histogram and collect_unchanged_words                                   *)
(***************************************************************************)
\* The occurrence limit of the histogram (collect_unchanged_words_lcs).
max_occurrences == 100

\* Histogram::calculate: the local positions of the words equal to `word`,
\* ascending; one more than max_occurrences are kept at most.
HistogramPositions(source, word, compare) ==
    LET all == SetToAscSeq({i \in 0..(NumWords(source) - 1) :
                               CompareEq(compare, WordAt(source, i), word)})
    IN  SubSeq(all, 1, Min(Len(all), max_occurrences + 1))

\* The histogram entries: one per class of equal words, named by the local
\* position of the first word of the class.
HistogramEntries(source, compare) ==
    {i \in 0..(NumWords(source) - 1) :
        \A j \in 0..(i - 1) : ~CompareEq(compare, WordAt(source, j), WordAt(source, i))}

\* The word position pairs that collect_unchanged_words_lcs feeds to
\* find_lcs: for the least occurrence count of `left` that has words
\* occurring equally often in `right`, occurrence k of each such word on the
\* left paired with its occurrence k on the right. {} when it gives up.
UncommonSharedWordPositions(left, right, compare) ==
    LET entries == HistogramEntries(left, compare)
        LeftPos(e) == HistogramPositions(left, WordAt(left, e), compare)
        RightPos(e) == HistogramPositions(right, WordAt(left, e), compare)
        counts == {Len(LeftPos(e)) : e \in entries}
        Shared(c) == {e \in entries : /\ Len(LeftPos(e)) = c
                                      /\ Len(RightPos(e)) = c}
        good == {c \in counts : Shared(c) # {}}
    IN  IF SetMin(counts) > max_occurrences \/ good = {} THEN {}
        ELSE UNION {{<<LeftPos(e)[k], RightPos(e)[k]>> : k \in 1..Len(LeftPos(e))} :
                        e \in Shared(SetMin(good))}

\* left_index_by_right_index: for the pairs ordered by right position, the
\* rank of each pair's left position.
LeftIndexByRightIndex(pairs) ==
    LET rights == SetToAscSeq({pr[2] : pr \in pairs})
        LeftOf(r) == (CHOOSE pr \in pairs : pr[2] = r)[1]
        Rank(l) == Cardinality({pr \in pairs : pr[1] < l})
    IN  [j \in 1..Len(rights) |-> Rank(LeftOf(rights[j]))]

\* The number of leading word pairs that are equal.
RECURSIVE CommonLeadingLen(_, _, _, _)
CommonLeadingLen(left, right, compare, n) ==
    IF /\ n < NumWords(left) /\ n < NumWords(right)
       /\ CompareEq(compare, WordAt(left, n), WordAt(right, n))
    THEN CommonLeadingLen(left, right, compare, n + 1) ELSE n

\* The number of trailing word pairs that are equal, not counting the
\* first `skip` words of either side.
RECURSIVE CommonTrailingLen(_, _, _, _, _)
CommonTrailingLen(left, right, compare, skip, n) ==
    IF /\ n < NumWords(left) - skip /\ n < NumWords(right) - skip
       /\ CompareEq(compare, WordAt(left, NumWords(left) - 1 - n),
                             WordAt(right, NumWords(right) - 1 - n))
    THEN CommonTrailingLen(left, right, compare, skip, n + 1) ELSE n

RECURSIVE collect_unchanged_words(_, _, _)
RECURSIVE LcsRecurse(_, _, _, _, _, _, _, _)

\* The loop over the LCS of collect_unchanged_words_lcs: recurse into the
\* area before each LCS element, then the element, and at last the area
\* after the last one. `k` is the index into lcs.
LcsRecurse(left, right, compare, lcs, lefts, rights, k, previous) ==
    IF k > Len(lcs)
    THEN collect_unchanged_words(
             narrowed(left, previous[1], NumWords(left)),
             narrowed(right, previous[2], NumWords(right)), compare)
    ELSE LET left_position == lefts[lcs[k][1] + 1]
             right_position == rights[lcs[k][2] + 1]
         IN  collect_unchanged_words(
                 narrowed(left, previous[1], left_position),
                 narrowed(right, previous[2], right_position), compare)
             \o <<<<map_to_global(left, left_position),
                    map_to_global(right, right_position)>>>>
             \o LcsRecurse(left, right, compare, lcs, lefts, rights, k + 1,
                           <<left_position + 1, right_position + 1>>)

\* collect_unchanged_words_lcs: <<>> when no word pair was found.
collect_unchanged_words_lcs(left, right, compare) ==
    CHOOSE found \in
        {IF pairs = {} THEN <<>>
         ELSE LcsRecurse(left, right, compare,
                         find_lcs(LeftIndexByRightIndex(pairs)),
                         SetToAscSeq({pr[1] : pr \in pairs}),
                         SetToAscSeq({pr[2] : pr \in pairs}),
                         1, <<0, 0>>) :
             pairs \in {UncommonSharedWordPositions(left, right, compare)}} : TRUE

\* The found (left, right) global word positions, ascending.
collect_unchanged_words(left, right, compare) ==
    IF NumWords(left) = 0 \/ NumWords(right) = 0 THEN <<>>
    ELSE CHOOSE found \in
             {IF by_lcs # <<>> THEN by_lcs
              ELSE LET leading == CommonLeadingLen(left, right, compare, 0)
                       trailing == CommonTrailingLen(left, right, compare, leading, 0)
                   IN  [i \in 1..leading |->
                           <<map_to_global(left, i - 1), map_to_global(right, i - 1)>>]
                       \o [i \in 1..trailing |->
                           <<map_to_global(left, NumWords(left) - trailing + i - 1),
                             map_to_global(right, NumWords(right) - trailing + i - 1)>>] :
                  by_lcs \in {collect_unchanged_words_lcs(left, right, compare)}} : TRUE

(***************************************************************************)
(* Diff: construction, compaction, refinement, hunks                       *)
(***************************************************************************)
\* Positions are pairs <<base_pos, <<other_pos, ...>>>>.

\* A join key that takes the other position of the new entry.
cmp_other_pos(cur, new) ==
    IF cur[1] < new[2] THEN "Less" ELSE IF cur[1] > new[2] THEN "Greater" ELSE "Equal"

\* The join key of intersect_unchanged_words: cur_base_pos.cmp(new_base_pos)
cmp_base_pos(cur, new) ==
    IF cur[1] < new[1] THEN "Less" ELSE IF cur[1] > new[1] THEN "Greater" ELSE "Equal"

RECURSIVE MergeJoinBoth(_, _, _, _)
\* itertools::merge_join_by(..).filter_map(both), with the new other
\* position pushed to the entries found on both sides.
MergeJoinBoth(current_positions, new_positions, i, j) ==
    IF i > Len(current_positions) \/ j > Len(new_positions) THEN <<>>
    ELSE LET cur == current_positions[i]
             new == new_positions[j]
             ord == cmp_base_pos(cur, new)
         IN  IF ord = "Less" THEN MergeJoinBoth(current_positions, new_positions, i + 1, j)
             ELSE IF ord = "Greater"
                  THEN MergeJoinBoth(current_positions, new_positions, i, j + 1)
             ELSE <<<<cur[1], Append(cur[2], new[2])>>>>
                  \o MergeJoinBoth(current_positions, new_positions, i + 1, j + 1)

intersect_unchanged_words(current_positions, new_positions) ==
    MergeJoinBoth(current_positions, new_positions, 1, 1)

RECURSIVE IntersectTail(_, _, _, _, _)
\* The fold over tail_other_sources.
IntersectTail(base_source, other_sources, compare, k, current_positions) ==
    IF k > Len(other_sources) THEN current_positions
    ELSE IntersectTail(base_source, other_sources, compare, k + 1,
             intersect_unchanged_words(current_positions,
                 collect_unchanged_words(base_source, other_sources[k], compare)))

\* The unchanged word positions of the base and all other sources
\* (first_positions, or intersected_positions for two and more others).
\* Called with at least one other source.
UnchangedWordPositions(base_source, other_sources, compare) ==
    CHOOSE positions \in
        {IntersectTail(base_source, other_sources, compare, 2,
                       [i \in 1..Len(first) |-> <<first[i][1], <<first[i][2]>>>>]) :
            first \in {collect_unchanged_words(base_source, other_sources[1], compare)}} : TRUE

\* UnchangedRange is [base, others].
\* UnchangedRange::from_word_positions
from_word_positions(base_source, other_sources, position) ==
    [base |-> base_source.ranges[position[1] + 1],
     others |-> [k \in 1..Len(other_sources) |->
                    other_sources[k].ranges[position[2][k] + 1]]]

\* UnchangedRange::is_all_empty
is_all_empty(r) ==
    RangeIsEmpty(r.base) /\ \A k \in 1..Len(r.others) : RangeIsEmpty(r.others[k])

\* A compaction test that never merges into an empty region.
CanMergeNonEmpty(previous, current) ==
    /\ ~RangeIsEmpty(previous.base)
    /\ previous.base.end = current.base.start
    /\ \A k \in 1..Len(previous.others) : previous.others[k].end = current.others[k].start

\* The test of compact_unchanged_regions: current continues previous on
\* every side.
CanMerge(previous, current) ==
    /\ previous.base.end = current.base.start
    /\ \A k \in 1..Len(previous.others) : previous.others[k].end = current.others[k].start

RECURSIVE CompactFrom(_, _, _)
\* The loop of compact_unchanged_regions; `previous` is maybe_previous
\* (already Some).
CompactFrom(regions, i, previous) ==
    IF i > Len(regions) THEN <<previous>>
    ELSE IF CanMerge(previous, regions[i])
         THEN CompactFrom(regions, i + 1,
                  [base |-> Range(previous.base.start, regions[i].base.end),
                   others |-> [k \in 1..Len(previous.others) |->
                                  Range(previous.others[k].start, regions[i].others[k].end)]])
         ELSE <<previous>> \o CompactFrom(regions, i + 1, regions[i])

compact_unchanged_regions(regions) ==
    IF regions = <<>> THEN <<>> ELSE CompactFrom(regions, 2, regions[1])

\* The token ranges Diff::for_tokenizer hands on, for input `text` among
\* `inputs`: none at all when one of the inputs is empty.
TokenRanges(inputs, tokenizer, text) ==
    IF \E k \in 1..Len(inputs) : inputs[k] = <<>> THEN <<>>
    ELSE Tokenize(tokenizer, text)

\* The token sources of inputs = <<base, others...>>: base and others.
BaseSource(inputs, tokenizer) ==
    DiffSource(inputs[1], TokenRanges(inputs, tokenizer, inputs[1]))

OtherSources(inputs, tokenizer) ==
    [k \in 1..(Len(inputs) - 1) |->
        DiffSource(inputs[k + 1], TokenRanges(inputs, tokenizer, inputs[k + 1]))]

\* The word positions Diff::with_inputs_and_token_ranges finds unchanged
\* (none are computed for a single input).
InputsUnchangedPositions(inputs, tokenizer, compare) ==
    IF Len(inputs) = 1 THEN <<>>
    ELSE UnchangedWordPositions(BaseSource(inputs, tokenizer),
                                OtherSources(inputs, tokenizer), compare)

\* Diff::with_inputs_and_token_ranges from the positions on: the unchanged
\* regions between the two empty ranges, compacted.
RegionsOfPositions(inputs, tokenizer, positions) ==
    LET base_input == inputs[1]
        other_inputs == Tail(inputs)
        base_source == BaseSource(inputs, tokenizer)
        other_sources == OtherSources(inputs, tokenizer)
    IN  IF other_inputs = <<>>
        THEN <<[base |-> Range(0, Len(base_input)), others |-> <<>>]>>
        ELSE compact_unchanged_regions(
                 <<[base |-> Range(0, 0),
                    others |-> [k \in 1..Len(other_inputs) |-> Range(0, 0)]]>>
                 \o [i \in 1..Len(positions) |->
                        from_word_positions(base_source, other_sources, positions[i])]
                 \o <<[base |-> Range(Len(base_input), Len(base_input)),
                       others |-> [k \in 1..Len(other_inputs) |->
                                      Range(Len(other_inputs[k]), Len(other_inputs[k]))]]>>)

\* Diff::for_tokenizer: the unchanged_regions of the new Diff.
for_tokenizer(inputs, tokenizer, compare) ==
    RegionsOfPositions(inputs, tokenizer,
                       InputsUnchangedPositions(inputs, tokenizer, compare))

\* Diff::hunk_between: the contents between previous and current.
hunk_between(inputs, previous, current) ==
    <<SubSeq(inputs[1], previous.base.end + 1, current.base.start)>>
    \o [k \in 1..Len(previous.others) |->
           SubSeq(inputs[k + 1], previous.others[k].end + 1, current.others[k].start)]

\* The refined regions of one changed region at the offsets of the contents
\* between previous and current.
RefinedBetweenNoOffset(inputs, previous, current, tokenizer, compare) ==
    for_tokenizer(hunk_between(inputs, previous, current), tokenizer, compare)

\* The refined regions of one changed region, moved to the offsets of the
\* enclosing diff.
RefinedBetween(inputs, previous, current, tokenizer, compare) ==
    LET refined == for_tokenizer(hunk_between(inputs, previous, current),
                                 tokenizer, compare)
    IN  [i \in 1..Len(refined) |->
            [base |-> Range(refined[i].base.start + previous.base.end,
                            refined[i].base.end + previous.base.end),
             others |-> [k \in 1..Len(previous.others) |->
                            Range(refined[i].others[k].start + previous.others[k].end,
                                  refined[i].others[k].end + previous.others[k].end)]]]

RECURSIVE RefineWindows(_, _, _, _, _)
\* The loop over unchanged_regions.windows(2).
RefineWindows(inputs, regions, i, tokenizer, compare) ==
    IF i >= Len(regions) THEN <<>>
    ELSE RefinedBetween(inputs, regions[i], regions[i + 1], tokenizer, compare)
         \o <<regions[i + 1]>>
         \o RefineWindows(inputs, regions, i + 1, tokenizer, compare)

\* Diff::refine_changed_regions: the new unchanged_regions.
refine_changed_regions(inputs, regions, tokenizer, compare) ==
    compact_unchanged_regions(
        <<regions[1]>> \o RefineWindows(inputs, regions, 1, tokenizer, compare))

\* A hunk is [kind, ranges]; ranges = <<base range, other ranges...>>.
HunkAt(previous) ==
    [kind |-> "Matching", ranges |-> <<previous.base>> \o previous.others]

HunkBetween(previous, current) ==
    [kind |-> "Different",
     ranges |-> <<Range(previous.base.end, current.base.start)>>
                \o [k \in 1..Len(previous.others) |->
                       Range(previous.others[k].end, current.others[k].start)]]

RECURSIVE HunkRangesFrom(_, _, _)
\* DiffHunkRangeIterator::next_with, run to the end. `i` indexes the
\* previous region; the iterator's unchanged_iter stands after it.
HunkRangesFrom(regions, i, unchanged_emitted) ==
    IF ~unchanged_emitted
    THEN <<HunkAt(regions[i])>> \o HunkRangesFrom(regions, i, TRUE)
    ELSE IF i >= Len(regions) THEN <<>>
    ELSE <<HunkBetween(regions[i], regions[i + 1])>>
         \o HunkRangesFrom(regions, i + 1, is_all_empty(regions[i + 1]))

\* Diff::hunk_ranges, collected.
hunk_ranges(regions) == HunkRangesFrom(regions, 1, is_all_empty(regions[1]))

(***************************************************************************)
(* Diff specification: a Diff is constructed over some diff_inputs and then     *)
(* refined any number of times.                                            *)
(***************************************************************************)
\* The most diff_inputs of one Diff (the base and the others).
MaxInputs == 3
\* The most bytes of all diff_inputs of one Diff together.
MaxTotalLen == 5

RECURSIVE TextsOfLen(_)
TextsOfLen(n) ==
    IF n = 0 THEN {<<>>} ELSE {<<b>> \o t : b \in Bytes, t \in TextsOfLen(n - 1)}

RECURSIVE InputLists(_, _)
\* The lists of k texts of at most `budget` bytes together.
InputLists(k, budget) ==
    IF k = 0 THEN {<<>>}
    ELSE UNION {{<<t>> \o rest : t \in TextsOfLen(n), rest \in InputLists(k - 1, budget - n)} :
                    n \in 0..budget}

InitDiff ==
    /\ IdleIndex
    /\ IdleAbsorb
    /\ IdleCommit
    /\ IdleConflict
    /\ IdleRest
    /\ diff_inputs \in UNION {InputLists(k, MaxTotalLen) : k \in 1..MaxInputs}
    /\ built_with = NotBuilt
    /\ unchanged_positions = <<>>
    /\ unchanged_regions = <<>>

\* Diff::for_tokenizer over the diff_inputs (by_line, by_word's first step,
\* unrefined, ...).
ForTokenizer(tokenizer, compare) ==
    /\ built_with = NotBuilt
    /\ built_with' = [tokenizer |-> tokenizer, compare |-> compare]
    /\ unchanged_positions' = InputsUnchangedPositions(diff_inputs, tokenizer, compare)
    /\ unchanged_regions' = RegionsOfPositions(diff_inputs, tokenizer, unchanged_positions')
    /\ UNCHANGED <<diff_inputs, outsideDiff>>

\* Diff::refine_changed_regions
RefineChangedRegions(tokenizer, compare) ==
    /\ built_with # NotBuilt
    /\ unchanged_regions' =
          refine_changed_regions(diff_inputs, unchanged_regions, tokenizer, compare)
    /\ UNCHANGED <<diff_inputs, built_with, unchanged_positions, outsideDiff>>

NextDiff ==
    \/ \E tokenizer \in Tokenizers, compare \in Comparators : ForTokenizer(tokenizer, compare)
    \/ \E tokenizer \in Tokenizers, compare \in Comparators :
          RefineChangedRegions(tokenizer, compare)

SpecDiff == InitDiff /\ [][NextDiff]_vars

\* The i-th content of a hunk.
HunkContent(hunk, i) == Slice(diff_inputs[i], hunk.ranges[i])

\* The hunks of the Diff as it stands.
Hunks == hunk_ranges(unchanged_regions)

\* C4: hunks() never yields a Different hunk that is empty on every side,
\* nor two Matching hunks in a row, after construction and after every
\* refinement.
C4_NoEmptyDifferentNoAdjacentMatching ==
    built_with # NotBuilt =>
        /\ \A h \in 1..Len(Hunks) :
              Hunks[h].kind = "Different" =>
                  \E i \in 1..Len(diff_inputs) : HunkContent(Hunks[h], i) # <<>>
        /\ \A h \in 1..(Len(Hunks) - 1) :
              ~(Hunks[h].kind = "Matching" /\ Hunks[h + 1].kind = "Matching")

\* A refined three-input diff with matching and different hunks.
C4_Witness ==
    /\ built_with # NotBuilt
    /\ Len(diff_inputs) = 3
    /\ built_with.tokenizer = "line"
    /\ unchanged_regions # for_tokenizer(diff_inputs, built_with.tokenizer, built_with.compare)
    /\ \E h \in 1..Len(Hunks) : Hunks[h].kind = "Matching"
    /\ \E h \in 1..Len(Hunks) : Hunks[h].kind = "Different"

\* The base tokens (byte ranges of the base input) that for_tokenizer finds
\* unchanged over inputs = <<base, others...>>, Len(inputs) >= 2.
UnchangedBaseTokens(inputs, tokenizer, compare) ==
    LET ranges == TokenRanges(inputs, tokenizer, inputs[1])
        positions == InputsUnchangedPositions(inputs, tokenizer, compare)
    IN  {ranges[positions[i][1] + 1] : i \in 1..Len(positions)}

\* The base tokens recorded unchanged when the Diff was constructed.
RecordedUnchangedBaseTokens ==
    LET ranges == TokenRanges(diff_inputs, built_with.tokenizer, diff_inputs[1])
    IN  {ranges[unchanged_positions[i][1] + 1] : i \in 1..Len(unchanged_positions)}

\* The base followed by the other inputs at the indexes in S, in order.
SubList(S) ==
    LET idx == SetToAscSeq(S)
    IN  <<diff_inputs[1]>> \o [i \in 1..Len(idx) |-> diff_inputs[idx[i]]]

\* C5: in a diff of a base and two or more other inputs, every base token
\* reported unchanged is unchanged in the two-input diff of the base with
\* each other input, and is unchanged in the diff of the base with every
\* sub-list of the other inputs.
C5_UnchangedOnlyIfUnchangedPairwise ==
    (built_with # NotBuilt /\ Len(diff_inputs) >= 3) =>
        /\ \A k \in 2..Len(diff_inputs) :
              RecordedUnchangedBaseTokens \subseteq
                  UnchangedBaseTokens(<<diff_inputs[1], diff_inputs[k]>>,
                                      built_with.tokenizer, built_with.compare)
        /\ \A S \in (SUBSET (2..Len(diff_inputs))) \ {{}} :
              RecordedUnchangedBaseTokens \subseteq
                  UnchangedBaseTokens(SubList(S), built_with.tokenizer, built_with.compare)

\* A diff of three inputs with an unchanged base token, where another base
\* token is unchanged against the first other input alone.
C5_Witness ==
    /\ built_with # NotBuilt
    /\ Len(diff_inputs) >= 3
    /\ RecordedUnchangedBaseTokens # {}
    /\ UnchangedBaseTokens(<<diff_inputs[1], diff_inputs[2]>>,
                           built_with.tokenizer, built_with.compare)
           # RecordedUnchangedBaseTokens

\* The i-th ranges of the hunks start at 0, each starts where the one
\* before ends, none ends before it starts, and the last ends at the end
\* of input i.
HunkRangesTile(i) ==
    IF Hunks = <<>> THEN diff_inputs[i] = <<>>
    ELSE /\ Hunks[1].ranges[i].start = 0
         /\ \A h \in 1..Len(Hunks) : Hunks[h].ranges[i].start <= Hunks[h].ranges[i].end
         /\ \A h \in 1..(Len(Hunks) - 1) :
               Hunks[h + 1].ranges[i].start = Hunks[h].ranges[i].end
         /\ Hunks[Len(Hunks)].ranges[i].end = Len(diff_inputs[i])

\* C29: the hunks of a Diff partition each input: the i-th ranges of the
\* hunks tile input i and the i-th contents, concatenated in order, are
\* input i byte for byte, after construction and after each
\* refine_changed_regions call.
C29_HunksPartitionEachInput ==
    built_with # NotBuilt =>
        \A i \in 1..Len(diff_inputs) :
            /\ HunkRangesTile(i)
            /\ Concat([h \in 1..Len(Hunks) |-> HunkContent(Hunks[h], i)]) = diff_inputs[i]

\* A refinement put an unchanged region inside a changed region that does
\* not start at offset 0 of an input.
C29_Witness ==
    /\ built_with # NotBuilt
    /\ Len(diff_inputs) >= 2
    /\ LET built == for_tokenizer(diff_inputs, built_with.tokenizer, built_with.compare)
       IN  \E r \in 1..Len(unchanged_regions), w \in 1..(Len(built) - 1) :
               /\ built[w].base.end > 0
               /\ built[w].base.end <= unchanged_regions[r].base.start
               /\ unchanged_regions[r].base.end <= built[w + 1].base.start
               /\ unchanged_regions[r].base.start < unchanged_regions[r].base.end
               /\ \A b \in 1..Len(built) : built[b] # unchanged_regions[r]

(***************************************************************************)
(* absorb: split_file_hunks (lib/src/absorb.rs)                            *)
(***************************************************************************)
\* The destination commits an annotated line can come from.
Commits == {"commit_id1", "commit_id2"}

\* The owner of a line that comes from no destination commit.
Masked == "masked"

RECURSIVE CompactLinesFrom(_, _, _, _)
\* Consecutive lines of one owner joined into one range; `cur` is the range
\* being grown.
CompactLinesFrom(lines, owners, i, cur) ==
    IF i > Len(lines) THEN <<cur>>
    ELSE IF owners[i] = cur.commit
         THEN CompactLinesFrom(lines, owners, i + 1,
                  [commit |-> cur.commit, range |-> Range(cur.range.start, lines[i].end)])
         ELSE <<cur>> \o CompactLinesFrom(lines, owners, i + 1,
                             [commit |-> owners[i], range |-> lines[i]])

\* The annotation_ranges split_hunks_to_trees passes on: the compacted line
\* ranges of the left text, without the masked ones.
AnnotationRanges(text, owners) ==
    LET lines == find_line_ranges(text)
    IN  IF lines = <<>> THEN <<>>
        ELSE SelectSeq(CompactLinesFrom(lines, owners, 2,
                                        [commit |-> owners[1], range |-> lines[1]]),
                       LAMBDA a : a.commit # Masked)

\* iter().take_while(|(_, range)| range.end < bound).count(), or with
\* range.end <= bound when `inclusive`
TakeWhileCount(ranges, bound, inclusive) ==
    LET P(a) == IF inclusive THEN a.range.end <= bound ELSE a.range.end < bound
    IN  CHOOSE n \in 0..Len(ranges) :
            /\ \A i \in 1..n : P(ranges[i])
            /\ n = Len(ranges) \/ ~P(ranges[n + 1])

\* A fold step that accepts every range.
covered_step_any(prev_end, cur) == TRUE

\* The step of the try_fold: the range starts no later than the end reached.
covered_step(prev_end, cur) == cur.start <= prev_end

RECURSIVE CoveredFold(_, _, _)
\* try_fold(left_range.start, ..): the last end, or -1 for None.
CoveredFold(overlapped_ranges, i, prev_end) ==
    IF i > Len(overlapped_ranges) THEN prev_end
    ELSE IF covered_step(prev_end, overlapped_ranges[i].range)
         THEN CoveredFold(overlapped_ranges, i + 1, overlapped_ranges[i].range.end)
         ELSE -1

\* A selection of the annotation range as it is.
selected_whole_range(cur_range, left_range) == cur_range

\* The part of a pure deletion selected for one overlapped range.
selected_sub_range(cur_range, left_range) ==
    Range(Max(cur_range.start, left_range.start), Min(cur_range.end, left_range.end))

\* A push at the front of the commit's vector.
PushSelectedFront(selected, commit_id, left_range, right_range) ==
    [selected EXCEPT ![commit_id] = <<<<left_range, right_range>>>> \o @]

\* selected_ranges.entry(commit_id).or_default().push(..)
PushSelected(selected, commit_id, left_range, right_range) ==
    [selected EXCEPT ![commit_id] = Append(@, <<left_range, right_range>>)]

RECURSIVE PushOverlapped(_, _, _, _, _)
\* The loop over overlapped_ranges of a covered pure deletion.
PushOverlapped(selected, overlapped_ranges, i, left_range, right_range) ==
    IF i > Len(overlapped_ranges) THEN selected
    ELSE PushOverlapped(
             PushSelected(selected, overlapped_ranges[i].commit,
                          selected_sub_range(overlapped_ranges[i].range, left_range),
                          right_range),
             overlapped_ranges, i + 1, left_range, right_range)

\* One pass of the loop for a pure deletion. Returns the annotation ranges
\* left, the selection, and whether an assertion failed.
DeletionStep(ranges, left_range, right_range, selected) ==
    LET skip == TakeWhileCount(ranges, left_range.start, TRUE)
        after_skip == SubSeq(ranges, skip + 1, Len(ranges))
        pre_overlap == TakeWhileCount(after_skip, left_range.end, FALSE)
        rest == SubSeq(after_skip, pre_overlap + 1, Len(after_skip))
        overlapped_ranges == SubSeq(after_skip, 1, pre_overlap + 1)
        last_end == CoveredFold(overlapped_ranges, 1, left_range.start)
        sub(i) == selected_sub_range(overlapped_ranges[i].range, left_range)
    IN  IF pre_overlap + 1 > Len(after_skip) \/ last_end = -1
        THEN [ranges |-> rest, selected |-> selected, panicked |-> FALSE]
        ELSE IF \/ ~(left_range.end <= last_end)
                \/ \E i \in 1..Len(overlapped_ranges) : ~(sub(i).start < sub(i).end)
        THEN [ranges |-> rest, selected |-> selected, panicked |-> TRUE]
        ELSE [ranges |-> rest,
              selected |-> PushOverlapped(selected, overlapped_ranges, 1,
                                          left_range, right_range),
              panicked |-> FALSE]

\* A test that never finds a pure insertion ambiguous.
never_ambiguous(ranges, left_range) == FALSE

\* `ambiguous`: the first range ends where the hunk starts and the next
\* range starts where the hunk ends.
ambiguous(ranges, left_range) ==
    /\ ranges[1].range.end = left_range.start
    /\ Len(ranges) >= 2
    /\ ranges[2].range.start = left_range.end

\* One pass of the loop for a hunk with a non-empty right side.
OtherStep(ranges, left_range, right_range, selected) ==
    LET skip == TakeWhileCount(ranges, left_range.end, FALSE)
        rest == SubSeq(ranges, skip + 1, Len(ranges))
        contained == /\ rest[1].range.start <= left_range.start
                     /\ left_range.end <= rest[1].range.end
    IN  [ranges |-> rest,
         selected |-> IF rest # <<>> /\ contained /\ ~ambiguous(rest, left_range)
                      THEN PushSelected(selected, rest[1].commit, left_range, right_range)
                      ELSE selected,
         panicked |-> FALSE]

RECURSIVE SplitLoop(_, _, _, _)
\* The while loop of split_file_hunks over the Different hunks.
SplitLoop(ranges, hunks, h, selected) ==
    IF ranges = <<>> \/ h > Len(hunks)
    THEN [called |-> TRUE, selected |-> selected, panicked |-> FALSE]
    ELSE LET left_range == hunks[h].ranges[1]
             right_range == hunks[h].ranges[2]
             step == IF RangeIsEmpty(right_range)
                     THEN DeletionStep(ranges, left_range, right_range, selected)
                     ELSE OtherStep(ranges, left_range, right_range, selected)
         IN  IF (RangeIsEmpty(left_range) /\ RangeIsEmpty(right_range)) \/ step.panicked
             THEN [called |-> TRUE, selected |-> selected, panicked |-> TRUE]
             ELSE SplitLoop(step.ranges, hunks, h + 1, step.selected)

\* diff.hunk_ranges() filtered to the Different hunks, for the
\* unchanged_regions of the diff
DifferentHunks(regions) ==
    SelectSeq(hunk_ranges(regions), LAMBDA hunk : hunk.kind = "Different")

\* split_file_hunks: the selection by commit; a commit without an entry in
\* the map has the empty sequence.
split_file_hunks(ranges, regions) ==
    SplitLoop(ranges, DifferentHunks(regions), 1, [c \in Commits |-> <<>>])

(***************************************************************************)
(* absorb specification: the hunks of Diff::by_line([left, right]) of one   *)
(* changed file are split by the annotation of its left content.           *)
(***************************************************************************)
\* The most bytes of the left and of the right text.
MaxTextLen == 4

TextsUpTo(n) == UNION {TextsOfLen(k) : k \in 0..n}

\* Diff::by_line
ByLine == [tokenizer |-> "line", compare |-> "exactly"]

InitAbsorb ==
    /\ IdleIndex
    /\ IdleCommit
    /\ IdleConflict
    /\ IdleRest
    /\ diff_inputs \in TextsUpTo(MaxTextLen) \X TextsUpTo(MaxTextLen)
    /\ built_with = ByLine
    /\ unchanged_positions =
          InputsUnchangedPositions(diff_inputs, ByLine.tokenizer, ByLine.compare)
    /\ unchanged_regions =
          RegionsOfPositions(diff_inputs, ByLine.tokenizer, unchanged_positions)
    /\ \E owners \in [1..Len(find_line_ranges(diff_inputs[1])) -> Commits \cup {Masked}] :
          annotation_ranges = AnnotationRanges(diff_inputs[1], owners)
    /\ selected_ranges = NotSplit

\* split_file_hunks(&annotation_ranges, &diff)
SplitFileHunks ==
    /\ ~selected_ranges.called
    /\ selected_ranges' = split_file_hunks(annotation_ranges, unchanged_regions)
    /\ UNCHANGED <<annotation_ranges, outsideAbsorb>>

NextAbsorb == SplitFileHunks

SpecAbsorb == InitAbsorb /\ [][NextAbsorb]_vars

\* The Different hunks of the diff of the two texts, as a set.
AbsorbHunks ==
    LET hunks == DifferentHunks(unchanged_regions) IN {hunks[h] : h \in 1..Len(hunks)}

\* Every (left range, right range) pair in the returned map, with its commit
\* and its place in the commit's vector.
SelectedEntries ==
    UNION {{[commit |-> c, index |-> i,
             left |-> selected_ranges.selected[c][i][1],
             right |-> selected_ranges.selected[c][i][2]] :
                i \in 1..Len(selected_ranges.selected[c])} : c \in Commits}

\* The entries that attribute (part of) a hunk.
EntriesOf(hunk) ==
    {e \in SelectedEntries :
        /\ e.right = hunk.ranges[2]
        /\ hunk.ranges[1].start <= e.left.start
        /\ e.left.end <= hunk.ranges[1].end}

\* The annotation ranges (by index) that hold the whole base span of a hunk.
Containing(hunk) ==
    {k \in 1..Len(annotation_ranges) :
        /\ annotation_ranges[k].range.start <= hunk.ranges[1].start
        /\ hunk.ranges[1].end <= annotation_ranges[k].range.end}

\* A pure insertion at the offset where one annotation range ends and the
\* next one starts.
AtBoundary(hunk) ==
    /\ RangeIsEmpty(hunk.ranges[1])
    /\ \E k \in 1..(Len(annotation_ranges) - 1) :
          /\ annotation_ranges[k].range.end = hunk.ranges[1].start
          /\ annotation_ranges[k + 1].range.start = hunk.ranges[1].start

\* C6: a hunk with a non-empty source (right) side is attributed at most
\* once, as a whole, and only to the commit of the single annotation range
\* that holds its base span; a pure insertion at the boundary of two
\* adjacent ranges is not attributed; the map holds nothing but attributed
\* hunks, so it is empty when no hunk has a single holding range.
C6_NonDeletionNeedsSingleRange ==
    selected_ranges.called =>
        /\ \A hunk \in AbsorbHunks :
              ~RangeIsEmpty(hunk.ranges[2]) =>
                  /\ Cardinality(EntriesOf(hunk)) <= 1
                  /\ \A e \in EntriesOf(hunk) :
                        /\ e.left = hunk.ranges[1]
                        /\ Cardinality(Containing(hunk)) = 1
                        /\ \A k \in Containing(hunk) : annotation_ranges[k].commit = e.commit
                  /\ AtBoundary(hunk) => EntriesOf(hunk) = {}
        /\ \A e \in SelectedEntries : \E hunk \in AbsorbHunks : e \in EntriesOf(hunk)
        /\ (\A hunk \in AbsorbHunks : /\ ~RangeIsEmpty(hunk.ranges[2])
                                      /\ Cardinality(Containing(hunk)) # 1)
              => SelectedEntries = {}

\* A pure insertion between two adjacent annotation ranges was rejected and
\* the returned map is empty.
C6_Witness ==
    /\ selected_ranges.called
    /\ \E hunk \in AbsorbHunks : ~RangeIsEmpty(hunk.ranges[2]) /\ AtBoundary(hunk)
    /\ SelectedEntries = {}

\* Every byte of the base span of the hunk lies in an annotation range.
FullyCovered(hunk) ==
    \A b \in hunk.ranges[1].start..(hunk.ranges[1].end - 1) :
        \E k \in 1..Len(annotation_ranges) :
            /\ annotation_ranges[k].range.start <= b
            /\ b < annotation_ranges[k].range.end

\* The annotation ranges (by index) that share a byte with the base span.
Overlapped(hunk) ==
    {k \in 1..Len(annotation_ranges) :
        /\ annotation_ranges[k].range.start < hunk.ranges[1].end
        /\ hunk.ranges[1].start < annotation_ranges[k].range.end}

RangeBytes(r) == r.start..(r.end - 1)

\* C7: a pure deletion whose base span is fully covered by annotation
\* ranges is attributed once to the commit of each range it overlaps, with
\* the intersection of that range and the span paired with the hunk's empty
\* right range; the attributed parts together are the deleted span.
C7_CoveredDeletionSplitByRange ==
    selected_ranges.called =>
        \A hunk \in AbsorbHunks :
            (RangeIsEmpty(hunk.ranges[2]) /\ FullyCovered(hunk)) =>
                /\ ~selected_ranges.panicked
                /\ {<<e.commit, e.left>> : e \in EntriesOf(hunk)} =
                      {<<annotation_ranges[k].commit,
                         Range(Max(annotation_ranges[k].range.start, hunk.ranges[1].start),
                               Min(annotation_ranges[k].range.end, hunk.ranges[1].end))>> :
                            k \in Overlapped(hunk)}
                /\ Cardinality(EntriesOf(hunk)) = Cardinality(Overlapped(hunk))
                /\ UNION {RangeBytes(e.left) : e \in EntriesOf(hunk)} =
                      RangeBytes(hunk.ranges[1])

\* A covered pure deletion over two annotation ranges, one of which it
\* overlaps in part only.
C7_Witness ==
    /\ selected_ranges.called
    /\ \E hunk \in AbsorbHunks :
          /\ RangeIsEmpty(hunk.ranges[2])
          /\ FullyCovered(hunk)
          /\ Cardinality(Overlapped(hunk)) >= 2
          /\ \E k \in Overlapped(hunk) :
                annotation_ranges[k].range.start < hunk.ranges[1].start
          /\ Cardinality(EntriesOf(hunk)) >= 2

\* C8: a pure deletion whose base span has a byte outside of every
\* annotation range is attributed to no commit, not even in part.
C8_UncoveredDeletionRejected ==
    selected_ranges.called =>
        \A hunk \in AbsorbHunks :
            (RangeIsEmpty(hunk.ranges[2]) /\ ~FullyCovered(hunk)) => EntriesOf(hunk) = {}

\* A pure deletion over an annotated and a masked line was rejected.
C8_Witness ==
    /\ selected_ranges.called
    /\ \E hunk \in AbsorbHunks :
          /\ RangeIsEmpty(hunk.ranges[2])
          /\ ~FullyCovered(hunk)
          /\ Overlapped(hunk) # {}
          /\ EntriesOf(hunk) = {}

(***************************************************************************)
(* absorb specification over every annotation: the annotation ranges are   *)
(* any ascending list of non-empty, non-overlapping byte ranges of the     *)
(* left text, compacted or not, on line boundaries or not.                 *)
(***************************************************************************)
RECURSIVE AscendingRangesFrom(_, _)
\* Every list of (commit, range) with non-empty ranges in lo..n, each
\* starting no earlier than the end of the one before.
AscendingRangesFrom(lo, n) ==
    {<<>>} \cup
    UNION {{<<[commit |-> c, range |-> Range(s, e)]>> \o rest :
               c \in Commits, rest \in AscendingRangesFrom(e, n)} :
           s \in lo..(n - 1), e \in (lo + 1)..n}

InitAbsorbAny ==
    /\ IdleIndex
    /\ IdleCommit
    /\ IdleConflict
    /\ IdleRest
    /\ diff_inputs \in TextsUpTo(MaxTextLen) \X TextsUpTo(MaxTextLen)
    /\ built_with = ByLine
    /\ unchanged_positions =
          InputsUnchangedPositions(diff_inputs, ByLine.tokenizer, ByLine.compare)
    /\ unchanged_regions =
          RegionsOfPositions(diff_inputs, ByLine.tokenizer, unchanged_positions)
    /\ \E ranges \in AscendingRangesFrom(0, Len(diff_inputs[1])) :
          /\ \A k \in 1..Len(ranges) : ranges[k].range.start < ranges[k].range.end
          /\ annotation_ranges = ranges
    /\ selected_ranges = NotSplit

SpecAbsorbAny == InitAbsorbAny /\ [][NextAbsorb]_vars

\* &text[range]: the slice, or a panic when the range is out of order or
\* out of bounds.
SliceChecked(text, r) ==
    IF r.start <= r.end /\ r.end <= Len(text)
    THEN [panicked |-> FALSE, text |-> Slice(text, r)]
    ELSE [panicked |-> TRUE, text |-> <<>>]

\* combine_texts(text1, text2, selected): text1 with each selected base
\* range replaced by its source range of text2.
combine_texts(text1, text2, selected) ==
    LET chain == <<<<Range(0, 0), Range(0, 0)>>>> \o selected
                     \o <<<<Range(Len(text1), Len(text1)), Range(Len(text2), Len(text2))>>>>
        slices == [w \in 1..(2 * (Len(chain) - 1)) |->
                      LET k == (w + 1) \div 2
                      IN  IF w % 2 = 1
                          THEN SliceChecked(text1, Range(chain[k][1].end, chain[k + 1][1].start))
                          ELSE SliceChecked(text2, chain[k + 1][2])]
    IN  [panicked |-> \E w \in 1..Len(slices) : slices[w].panicked,
         text |-> Concat([w \in 1..Len(slices) |-> slices[w].text])]

\* The pairs of one commit go up without overlap, on the side `side` (1 the
\* base, 2 the source), inside a text of `len` bytes.
AscendingWithin(pairs, side, len) ==
    /\ \A i \in 1..Len(pairs) :
          pairs[i][side].start <= pairs[i][side].end /\ pairs[i][side].end <= len
    /\ \A i \in 1..(Len(pairs) - 1) : pairs[i][side].end <= pairs[i + 1][side].start

\* C28: for every ascending list of non-empty, non-overlapping annotation
\* ranges and every two-sided line diff, no assertion of split_file_hunks
\* fails, the pairs returned for a commit are ascending and non-overlapping
\* in the base and in the source ranges and within the two texts, and
\* combine_texts slices such a list in order and in bounds.
C28_SelectedRangesAscendingInBounds ==
    selected_ranges.called =>
        /\ ~selected_ranges.panicked
        /\ \A c \in Commits :
              /\ AscendingWithin(selected_ranges.selected[c], 1, Len(diff_inputs[1]))
              /\ AscendingWithin(selected_ranges.selected[c], 2, Len(diff_inputs[2]))
              /\ ~combine_texts(diff_inputs[1], diff_inputs[2],
                                selected_ranges.selected[c]).panicked

\* One commit got two pairs from annotation ranges that are not compacted,
\* and combine_texts changed the left text with them.
C28_Witness ==
    /\ selected_ranges.called
    /\ \E k \in 1..(Len(annotation_ranges) - 1) :
          /\ annotation_ranges[k].commit = annotation_ranges[k + 1].commit
          /\ annotation_ranges[k].range.end = annotation_ranges[k + 1].range.start
    /\ \E c \in Commits :
          /\ Len(selected_ranges.selected[c]) >= 2
          /\ combine_texts(diff_inputs[1], diff_inputs[2],
                           selected_ranges.selected[c]).text # diff_inputs[1]

(***************************************************************************)
(* Commit builder (lib/src/commit_builder.rs)                              *)
(*                                                                         *)
(* A backend commit is [parents, predecessors, root_tree, change_id]; the  *)
(* root_tree stands for all of its content besides (tree, description,     *)
(* signatures). The store is content-addressed: a commit id is written as  *)
(* the content it is the hash of, [parents, root_tree, change_id]. The     *)
(* predecessors are no part of it: write() guards against a commit that    *)
(* gets the id of its own predecessor.                                     *)
(***************************************************************************)
\* The most commits in the store (the root commit is one of them).
MaxStoreCommits == 3

Trees == {"tree1", "tree2"}

ChangeIds == {"change1", "change2"}

RootCommitId == [parents |-> <<>>, root_tree |-> "tree1", change_id |-> "change1"]

\* The value of a BTreeMap after insert(k, v); maps are functions.
MapInsert(f, k, v) == [i \in (DOMAIN f) \cup {k} |-> IF i = k THEN v ELSE f[i]]

\* store.write_commit: the id the commit gets.
WrittenId(commit) ==
    [parents |-> commit.parents, root_tree |-> commit.root_tree,
     change_id |-> commit.change_id]

\* store.write_commit: the store afterwards.
write_to_store(st, commit) == st \cup {WrittenId(commit)}

RECURSIVE CommitAncestors(_)
\* The commits of S and their ancestors.
CommitAncestors(S) ==
    LET ps == UNION {SeqToSet(id.parents) : id \in S}
    IN  IF ps \subseteq S THEN S ELSE CommitAncestors(S \cup ps)

\* MutableRepo::add_head: the commit is indexed and becomes a head; heads
\* that are ancestors of another head are no heads.
add_head(repo, id) ==
    LET all == repo.heads \cup {id}
    IN  [repo EXCEPT !.index = @ \cup {id},
                     !.heads = {h \in all : \A g \in all \ {h} :
                                               h \notin CommitAncestors({g})}]

\* MutableRepo::set_predecessors
set_predecessors(repo, id, predecessors) ==
    [repo EXCEPT !.predecessors = MapInsert(@, id, predecessors)]

\* MutableRepo::set_rewritten_commit
set_rewritten_commit(repo, old_id, new_id) ==
    [repo EXCEPT !.parent_mapping =
        MapInsert(@, old_id, [kind |-> "Rewritten", ids |-> <<new_id>>])]

\* MutableRepo::record_abandoned_commit_with_parents
record_abandoned_commit_with_parents(repo, old_id, new_parent_ids) ==
    [repo EXCEPT !.parent_mapping =
        MapInsert(@, old_id, [kind |-> "Abandoned", ids |-> new_parent_ids])]

\* rewrite_source of a builder: None
NoSource == [some |-> FALSE]

\* DetachedCommitBuilder::for_new_commit; the change id comes from the rng.
for_new_commit(parents, tree_id, change_id) ==
    [made |-> TRUE,
     commit |-> [parents |-> parents, predecessors |-> <<>>,
                 root_tree |-> tree_id, change_id |-> change_id],
     rewrite_source |-> NoSource]

\* DetachedCommitBuilder::for_rewrite_from
for_rewrite_from(predecessor) ==
    [made |-> TRUE,
     commit |-> [parents |-> predecessor.parents, predecessors |-> <<predecessor>>,
                 root_tree |-> predecessor.root_tree, change_id |-> predecessor.change_id],
     rewrite_source |-> [some |-> TRUE, id |-> predecessor,
                         change_id |-> predecessor.change_id]]

\* A test that lets every commit id pass as new.
never_already_exists(repo, id) == FALSE

\* The test of write(): the repo is backed by the default index and the
\* index has the id.
already_exists(repo, id) == repo.default_index /\ id \in repo.index

\* A test that does not compare the change ids.
HasRewriteSource(b) == b.rewrite_source.some

\* rewrite_source is Some and has the change id of the commit.
RewritesSource(b) ==
    b.rewrite_source.some /\ b.rewrite_source.change_id = b.commit.change_id

\* A write that adds no head to the repo.
write_without_head(b, repo, st) ==
    [store |-> write_to_store(st, b.commit),
     repo |-> set_predecessors(repo, WrittenId(b.commit), b.commit.predecessors),
     result |-> [op |-> "write", ok |-> TRUE]]

\* DetachedCommitBuilder::write: the store, the repo and the result after.
write(b, repo, st) ==
    LET id == WrittenId(b.commit)
        new_store == write_to_store(st, b.commit)
        with_head == set_predecessors(add_head(repo, id), id, b.commit.predecessors)
    IN  IF already_exists(repo, id)
        THEN [store |-> new_store, repo |-> repo,
              result |-> [op |-> "write", ok |-> FALSE]]
        ELSE [store |-> new_store,
              repo |-> IF RewritesSource(b)
                       THEN set_rewritten_commit(with_head, b.rewrite_source.id, id)
                       ELSE with_head,
              result |-> [op |-> "write", ok |-> TRUE]]

\* DetachedCommitBuilder::abandon: the repo after.
abandon(b, repo) ==
    IF RewritesSource(b)
    THEN record_abandoned_commit_with_parents(repo, b.rewrite_source.id, b.commit.parents)
    ELSE repo

(***************************************************************************)
(* Commit builder specification: builders are made on one MutableRepo,     *)
(* changed, and written or abandoned.                                      *)
(***************************************************************************)
\* The parents a commit is given: one indexed commit, the root or a child
\* of the root (merges and longer chains are left out).
ParentLists ==
    {<<id>> : id \in {c \in mut_repo.index : c.parents \in {<<>>, <<RootCommitId>>}}}

InitCommit ==
    /\ IdleIndex
    /\ IdleDiff
    /\ IdleAbsorb
    /\ IdleConflict
    /\ IdleRest
    /\ store = {RootCommitId}
    /\ mut_repo \in {[loaded |-> TRUE, default_index |-> d, index |-> {RootCommitId},
                      heads |-> {RootCommitId}, predecessors |-> <<>>,
                      parent_mapping |-> <<>>] : d \in BOOLEAN}
    /\ builder = NoBuilder
    /\ write_result = NoCall

\* MutableRepo::new_commit
NewCommit ==
    /\ ~builder.made
    /\ \E parents \in ParentLists, tree_id \in Trees, change_id \in ChangeIds :
          builder' = for_new_commit(parents, tree_id, change_id)
    /\ UNCHANGED <<store, mut_repo, write_result, outsideCommit>>

\* MutableRepo::rewrite_commit
RewriteCommit ==
    /\ ~builder.made
    /\ \E predecessor \in mut_repo.index \ {RootCommitId} :
          builder' = for_rewrite_from(predecessor)
    /\ UNCHANGED <<store, mut_repo, write_result, outsideCommit>>

\* set_parents
SetParents ==
    /\ builder.made
    /\ \E parents \in ParentLists : builder' = [builder EXCEPT !.commit.parents = parents]
    /\ UNCHANGED <<store, mut_repo, write_result, outsideCommit>>

\* set_tree_id
SetTreeId ==
    /\ builder.made
    /\ \E tree_id \in Trees : builder' = [builder EXCEPT !.commit.root_tree = tree_id]
    /\ UNCHANGED <<store, mut_repo, write_result, outsideCommit>>

\* set_change_id, generate_new_change_id
SetChangeId ==
    /\ builder.made
    /\ \E change_id \in ChangeIds : builder' = [builder EXCEPT !.commit.change_id = change_id]
    /\ UNCHANGED <<store, mut_repo, write_result, outsideCommit>>

\* CommitBuilder::write / DetachedCommitBuilder::write
Write ==
    /\ builder.made
    /\ Cardinality(write_to_store(store, builder.commit)) <= MaxStoreCommits
    /\ LET w == write(builder, mut_repo, store)
       IN  /\ store' = w.store
           /\ mut_repo' = w.repo
           /\ write_result' = w.result
    /\ builder' = NoBuilder
    /\ UNCHANGED outsideCommit

\* write_hidden: the builder stays in hand.
WriteHidden ==
    /\ builder.made
    /\ Cardinality(write_to_store(store, builder.commit)) <= MaxStoreCommits
    /\ store' = write_to_store(store, builder.commit)
    /\ write_result' = [op |-> "write_hidden", ok |-> TRUE]
    /\ UNCHANGED <<mut_repo, builder, outsideCommit>>

\* CommitBuilder::abandon / DetachedCommitBuilder::abandon
Abandon ==
    /\ builder.made
    /\ mut_repo' = abandon(builder, mut_repo)
    /\ builder' = NoBuilder
    /\ write_result' = [op |-> "abandon", ok |-> TRUE]
    /\ UNCHANGED <<store, outsideCommit>>

NextCommit ==
    \/ NewCommit
    \/ RewriteCommit
    \/ SetParents
    \/ SetTreeId
    \/ SetChangeId
    \/ Write
    \/ WriteHidden
    \/ Abandon

SpecCommit == InitCommit /\ [][NextCommit]_vars

\* A step that is a call of write().
WriteStep == builder.made /\ ~builder'.made /\ write_result'.op = "write"

\* The id of the commit of the builder in hand is in the index of the repo.
IdInIndex == WrittenId(builder.commit) \in mut_repo.index

AbandonStep == builder.made /\ ~builder'.made /\ write_result'.op = "abandon"

\* The builder in hand was made by rewrite_commit for a commit whose change
\* id the commit of the builder still has.
KeepsChangeIdOfSource ==
    /\ builder.rewrite_source.some
    /\ builder.rewrite_source.id.change_id = builder.commit.change_id

\* C27: a write() that returns the commit records the commit the builder
\* was made from as rewritten to the new commit if the builder still has its
\* change id, and leaves the rewrite records as they were otherwise (a
\* builder for a new commit, a replaced change id); abandon() records that
\* commit as abandoned with the parents of the builder in the first case and
\* leaves the whole repo as it was otherwise.
C27_RewriteRecordedOnlyForSource ==
    [][/\ (WriteStep /\ write_result'.ok) =>
              mut_repo'.parent_mapping =
                  IF KeepsChangeIdOfSource
                  THEN MapInsert(mut_repo.parent_mapping, builder.rewrite_source.id,
                                 [kind |-> "Rewritten", ids |-> <<WrittenId(builder.commit)>>])
                  ELSE mut_repo.parent_mapping
       /\ AbandonStep =>
              mut_repo' =
                  IF KeepsChangeIdOfSource
                  THEN [mut_repo EXCEPT !.parent_mapping =
                           MapInsert(@, builder.rewrite_source.id,
                                     [kind |-> "Abandoned", ids |-> builder.commit.parents])]
                  ELSE mut_repo]_vars

\* A commit was rewritten and written, and the new commit was rewritten
\* and abandoned: the repo has a record of each kind.
C27_Witness ==
    /\ write_result.op = "abandon"
    /\ \E old_id \in DOMAIN mut_repo.parent_mapping :
          mut_repo.parent_mapping[old_id].kind = "Rewritten"
    /\ \E old_id \in DOMAIN mut_repo.parent_mapping :
          mut_repo.parent_mapping[old_id].kind = "Abandoned"

(***************************************************************************)
(* Conflict markers: materialize_merge_result, parse_conflict and          *)
(* update_from_content of lib/src/conflicts.rs and merge of                *)
(* lib/src/files.rs, which are known here by lib/tests/test_conflicts.rs.  *)
(*                                                                         *)
(* A Merge is the sequence of its terms, adds and removes interleaved:     *)
(* <<side 1, base, side 2>>; a resolved Merge is <<value>>. A file id is   *)
(* the hash of the content of the file and is written as that content.     *)
(* A marker line is written without the text that follows the marker       *)
(* ("Conflict 1 of 2", "Contents of side #1"): parsing does not read it.   *)
(***************************************************************************)
MIN_CONFLICT_MARKER_LEN == 7

\* By how much a materialized marker is longer than the longest marker in
\* the contents.
CONFLICT_MARKER_LEN_INCREMENT == 4

Styles == {"Diff", "Snapshot", "Git"}

\* Merge::is_resolved
is_resolved(merge) == Len(merge) = 1

\* Merge::num_sides
num_sides(merge) == (Len(merge) + 1) \div 2

\* has_no_eol: the slice is not empty and does not end with a line feed.
has_no_eol(slice) == slice # <<>> /\ slice[Len(slice)] # "\n"

\* lines_with_terminator(): the lines of a text, each with its line feed.
lines_with_terminator(text) ==
    LET rs == find_line_ranges(text)
    IN  [i \in 1..Len(rs) |-> Slice(text, rs[i])]

RECURSIVE SimplifiedMappingOnePass(_, _, _)
\* A loop that moves on to the next add after a cancellation, too.
SimplifiedMappingOnePass(values, indices, add_index) ==
    IF add_index > Len(indices) THEN indices
    ELSE LET found == {r \in 1..Len(indices) :
                          r % 2 = 0 /\ values[indices[r]] = values[indices[add_index]]}
             swapped == [indices EXCEPT ![SetMin(found) + 1] = indices[add_index],
                                        ![add_index] = indices[SetMin(found) + 1]]
         IN  IF found = {} THEN SimplifiedMappingOnePass(values, indices, add_index + 2)
             ELSE SimplifiedMappingOnePass(values,
                      SubSeq(swapped, 1, SetMin(found) - 1)
                          \o SubSeq(swapped, SetMin(found) + 2, Len(swapped)),
                      add_index + 2)

RECURSIVE SimplifiedMappingFrom(_, _, _)
\* The loop of Merge::get_simplified_mapping over the adds (odd places):
\* the add at add_index is cancelled with the first remove (even place)
\* equal to it: it is swapped into the place after that remove and the two
\* are drained; add_index moves on only when no remove is equal.
SimplifiedMappingFrom(values, indices, add_index) ==
    IF add_index > Len(indices) THEN indices
    ELSE LET found == {r \in 1..Len(indices) :
                          r % 2 = 0 /\ values[indices[r]] = values[indices[add_index]]}
             swapped == [indices EXCEPT ![SetMin(found) + 1] = indices[add_index],
                                        ![add_index] = indices[SetMin(found) + 1]]
         IN  IF found = {} THEN SimplifiedMappingFrom(values, indices, add_index + 2)
             ELSE SimplifiedMappingFrom(values,
                      SubSeq(swapped, 1, SetMin(found) - 1)
                          \o SubSeq(swapped, SetMin(found) + 2, Len(swapped)),
                      add_index)

\* Merge::get_simplified_mapping: the places of the terms that are kept.
get_simplified_mapping(values) ==
    SimplifiedMappingFrom(values, SetToAscSeq(1..Len(values)), 1)

\* Merge::simplify: the terms that are left when every add that equals a
\* remove is cancelled with it.
simplify(merge) ==
    [i \in 1..Len(get_simplified_mapping(merge)) |-> merge[get_simplified_mapping(merge)[i]]]

\* trivial_merge of <<side 1, base, side 2>>: <<value>> if the sides agree
\* or only one side differs from the base, <<>> (None) otherwise.
trivial_merge(terms) ==
    IF terms[1] = terms[3] THEN <<terms[1]>>
    ELSE IF terms[1] = terms[2] THEN <<terms[3]>>
    ELSE IF terms[3] = terms[2] THEN <<terms[1]>>
    ELSE <<>>

\* The result of files::merge: resolved content, or the hunks of a conflict.
MergeResolved(content) == [resolved |-> TRUE, content |-> content]

MergeConflict(hunks) == [resolved |-> FALSE, hunks |-> hunks]

\* The resolved bytes gathered so far become a hunk of their own.
FlushResolved(merge_hunks_so_far, resolved_hunk) ==
    IF resolved_hunk # <<>> THEN Append(merge_hunks_so_far, <<resolved_hunk>>)
    ELSE merge_hunks_so_far

\* The contents of the inputs in the ranges of the hunks: [kind, contents].
HunkContents(inputs, hunks) ==
    [i \in 1..Len(hunks) |->
        [kind |-> hunks[i].kind,
         contents |-> [k \in 1..Len(inputs) |-> Slice(inputs[k], hunks[i].ranges[k])]]]

\* Diff::by_line(inputs).hunks(); the diff is taken once.
by_line(inputs) ==
    CHOOSE diff_hunks \in {HunkContents(inputs, hunks) :
                              hunks \in {hunk_ranges(for_tokenizer(inputs, "line", "exactly"))}} :
        TRUE

\* The contents of a hunk of the diff of <<base, side 1, side 2>>, in the
\* order of the terms: <<side 1, base, side 2>>.
TermsOfHunk(diff_hunk) ==
    <<diff_hunk.contents[2], diff_hunk.contents[1], diff_hunk.contents[3]>>

\* The hunks of the line diff of <<side 1, base, side 2>> with the base as
\* the first input, each with its parts in the order of the terms.
DiffHunkParts(single_hunk) ==
    by_line(<<single_hunk[2], single_hunk[1], single_hunk[3]>>)

RECURSIVE MergeHunksFrom(_, _, _, _)
\* The loop of files::merge_hunks over diff.hunks().
MergeHunksFrom(diff_hunks, i, resolved_hunk, merge_hunks_so_far) ==
    IF i > Len(diff_hunks)
    THEN IF merge_hunks_so_far = <<>> THEN MergeResolved(resolved_hunk)
         ELSE MergeConflict(FlushResolved(merge_hunks_so_far, resolved_hunk))
    ELSE LET parts == TermsOfHunk(diff_hunks[i])
             merged == trivial_merge(parts)
         IN  IF diff_hunks[i].kind = "Matching"
             THEN MergeHunksFrom(diff_hunks, i + 1, resolved_hunk \o parts[2],
                                 merge_hunks_so_far)
             ELSE IF merged # <<>>
             THEN MergeHunksFrom(diff_hunks, i + 1, resolved_hunk \o merged[1],
                                 merge_hunks_so_far)
             ELSE MergeHunksFrom(diff_hunks, i + 1, <<>>,
                                 Append(FlushResolved(merge_hunks_so_far, resolved_hunk),
                                        parts))

\* files::merge of the contents of a Merge.
merge(single_hunk) ==
    IF is_resolved(single_hunk) THEN MergeResolved(single_hunk[1])
    ELSE CHOOSE merge_result \in {MergeHunksFrom(diff_hunks, 1, <<>>, <<>>) :
                                     diff_hunks \in {DiffHunkParts(single_hunk)}} : TRUE

\* The bytes that start a conflict marker line.
MarkerChars == {"<", ">", "+", "-", "%", "=", "|"}

RECURSIVE LeadingRun(_, _)
\* How many bytes at the start of the line equal its byte `i + 1` and all
\* before it: take_while(|b| b == first_byte).count(), counted from i.
LeadingRun(line, i) ==
    IF i < Len(line) /\ line[i + 1] = line[1] THEN LeadingRun(line, i + 1) ELSE i

\* parse_conflict_marker_any_len: [some, kind, len]; the byte after the
\* marker, if any, must be ASCII whitespace.
parse_conflict_marker_any_len(line) ==
    IF line = <<>> \/ line[1] \notin MarkerChars THEN [some |-> FALSE]
    ELSE LET len == LeadingRun(line, 0)
         IN  IF len < Len(line) /\ ~is_ascii_whitespace(line[len + 1])
             THEN [some |-> FALSE]
             ELSE [some |-> TRUE, kind |-> line[1], len |-> len]

\* parse_conflict_marker: the kind of the marker of the line, if it is at
\* least expected_len long; "none" otherwise.
parse_conflict_marker(line, expected_len) ==
    LET marker == parse_conflict_marker_any_len(line)
    IN  IF marker.some /\ marker.len >= expected_len THEN marker.kind ELSE "none"

\* The length of the longest conflict marker among the lines of the terms.
MaxExistingMarkerLen(single_hunk) ==
    LET lens == {0} \cup
                {parse_conflict_marker_any_len(line).len :
                    line \in {l \in UNION {SeqToSet(lines_with_terminator(single_hunk[k])) :
                                              k \in 1..Len(single_hunk)} :
                                 parse_conflict_marker_any_len(l).some}}
    IN  CHOOSE m \in lens : \A n \in lens : n <= m

\* A choice of the marker length that never goes beyond the minimum.
choose_minimum_conflict_marker_len(single_hunk) == MIN_CONFLICT_MARKER_LEN

\* choose_materialized_conflict_marker_len: longer than every marker in the
\* contents, and MIN_CONFLICT_MARKER_LEN at least.
choose_materialized_conflict_marker_len(single_hunk) ==
    LET longer == MaxExistingMarkerLen(single_hunk) + CONFLICT_MARKER_LEN_INCREMENT
    IN  IF longer > MIN_CONFLICT_MARKER_LEN THEN longer ELSE MIN_CONFLICT_MARKER_LEN

\* write_conflict_marker: the marker line.
write_conflict_marker(char, len) == [i \in 1..len |-> char] \o <<"\n">>

\* write_and_ensure_newline
write_and_ensure_newline(content) ==
    IF has_no_eol(content) THEN content \o <<"\n">> ELSE content

\* Every line of the content behind the prefix byte.
PrefixedLines(prefix, content) ==
    LET lines == lines_with_terminator(content)
    IN  Concat([i \in 1..Len(lines) |-> <<prefix>> \o write_and_ensure_newline(lines[i])])

RECURSIVE diff_size(_)
\* diff_size: the bytes of the Different hunks.
diff_size(diff_hunks) ==
    IF diff_hunks = <<>> THEN 0
    ELSE (IF Head(diff_hunks).kind = "Matching" THEN 0
          ELSE Len(Head(diff_hunks).contents[1]) + Len(Head(diff_hunks).contents[2]))
         + diff_size(Tail(diff_hunks))

\* write_diff_hunks
write_diff_hunks(diff_hunks) ==
    Concat([i \in 1..Len(diff_hunks) |->
               IF diff_hunks[i].kind = "Matching"
               THEN PrefixedLines(" ", diff_hunks[i].contents[1])
               ELSE PrefixedLines("-", diff_hunks[i].contents[1])
                    \o PrefixedLines("+", diff_hunks[i].contents[2])])

\* write_side, write_base and write_diff of materialize_jj_style_conflict
write_side(content, len) ==
    write_conflict_marker("+", len) \o write_and_ensure_newline(content)

write_base(content, len) ==
    write_conflict_marker("-", len) \o write_and_ensure_newline(content)

write_diff(diff_hunks, len) ==
    write_conflict_marker("%", len) \o write_diff_hunks(diff_hunks)

\* materialize_git_style_conflict of <<left, base, right>>
materialize_git_style_conflict(hunk, len) ==
    write_conflict_marker("<", len) \o write_and_ensure_newline(hunk[1])
    \o write_conflict_marker("|", len) \o write_and_ensure_newline(hunk[2])
    \o write_conflict_marker("=", len) \o write_and_ensure_newline(hunk[3])
    \o write_conflict_marker(">", len)

\* The Diff style writes the side with the smaller diff as a diff from the
\* base (the first one on a tie) and the other side as a snapshot; diffs[k]
\* is the diff from the base to term k.
DiffStyleSections(hunk, diffs, len) ==
    IF diff_size(diffs[3]) < diff_size(diffs[1])
    THEN write_side(hunk[1], len) \o write_diff(diffs[3], len)
    ELSE write_diff(diffs[1], len) \o write_side(hunk[3], len)

\* materialize_jj_style_conflict of <<side 1, base, side 2>>: the Snapshot
\* style writes the sides and the base apart.
materialize_jj_style_conflict(hunk, style, len) ==
    LET sections ==
            IF style # "Diff"
            THEN write_side(hunk[1], len) \o write_base(hunk[2], len)
                 \o write_side(hunk[3], len)
            ELSE CHOOSE written \in
                     {DiffStyleSections(hunk, diffs, len) :
                         diffs \in {[k \in {1, 3} |-> by_line(<<hunk[2], hunk[k]>>)]}} : TRUE
    IN  write_conflict_marker("<", len) \o sections \o write_conflict_marker(">", len)

\* materialize_conflict_hunks: resolved hunks as they are, the others
\* between markers.
materialize_conflict_hunks(hunks, style, len) ==
    Concat([i \in 1..Len(hunks) |->
               IF is_resolved(hunks[i]) THEN hunks[i][1]
               ELSE IF style = "Git" /\ Len(hunks[i]) = 3
               THEN materialize_git_style_conflict(hunks[i], len)
               ELSE materialize_jj_style_conflict(hunks[i], style, len)])

\* materialize_merge_result of the contents of a Merge
materialize_merge_result(single_hunk, merge_result, style) ==
    IF merge_result.resolved THEN merge_result.content
    ELSE materialize_conflict_hunks(merge_result.hunks, style,
             choose_materialized_conflict_marker_len(single_hunk))

\* A hunk that did not parse: Merge::resolved of the empty string.
InvalidHunk == <<<<>>>>

\* Merge::from_removes_adds: the terms interleaved, adds first.
from_removes_adds(removes, adds) ==
    [i \in 1..(Len(removes) + Len(adds)) |->
        IF i % 2 = 1 THEN adds[(i + 1) \div 2] ELSE removes[i \div 2]]

\* The last string of the list with the bytes appended.
ExtendLast(list, bytes) == [list EXCEPT ![Len(list)] = @ \o bytes]

\* A line of a diff section without its first byte.
Rest(line) == SubSeq(line, 2, Len(line))

RECURSIVE JjStyleFrom(_, _, _, _, _, _)
\* The loop of parse_jj_style_conflict_hunk over the lines of the hunk;
\* state is "Unknown", "Diff", "Remove" or "Add".
JjStyleFrom(lines, i, expected_marker_len, state, removes, adds) ==
    IF i > Len(lines)
    THEN IF Len(adds) = Len(removes) + 1 THEN from_removes_adds(removes, adds)
         ELSE InvalidHunk
    ELSE LET line == lines[i]
             marker == parse_conflict_marker(line, expected_marker_len)
         IN  IF marker = "%"
             THEN JjStyleFrom(lines, i + 1, expected_marker_len, "Diff",
                              Append(removes, <<>>), Append(adds, <<>>))
             ELSE IF marker = "-"
             THEN JjStyleFrom(lines, i + 1, expected_marker_len, "Remove",
                              Append(removes, <<>>), adds)
             ELSE IF marker = "+"
             THEN JjStyleFrom(lines, i + 1, expected_marker_len, "Add",
                              removes, Append(adds, <<>>))
             ELSE IF state = "Diff"
             THEN IF line[1] = "-"
                  THEN JjStyleFrom(lines, i + 1, expected_marker_len, state,
                                   ExtendLast(removes, Rest(line)), adds)
                  ELSE IF line[1] = "+"
                  THEN JjStyleFrom(lines, i + 1, expected_marker_len, state,
                                   removes, ExtendLast(adds, Rest(line)))
                  ELSE IF line[1] = " "
                  THEN JjStyleFrom(lines, i + 1, expected_marker_len, state,
                                   ExtendLast(removes, Rest(line)),
                                   ExtendLast(adds, Rest(line)))
                  ELSE IF line = <<"\n">>
                  THEN JjStyleFrom(lines, i + 1, expected_marker_len, state,
                                   ExtendLast(removes, line), ExtendLast(adds, line))
                  ELSE InvalidHunk
             ELSE IF state = "Remove"
             THEN JjStyleFrom(lines, i + 1, expected_marker_len, state,
                              ExtendLast(removes, line), adds)
             ELSE IF state = "Add"
             THEN JjStyleFrom(lines, i + 1, expected_marker_len, state,
                              removes, ExtendLast(adds, line))
             ELSE InvalidHunk

\* parse_jj_style_conflict_hunk
parse_jj_style_conflict_hunk(input, expected_marker_len) ==
    JjStyleFrom(lines_with_terminator(input), 1, expected_marker_len,
                "Unknown", <<>>, <<>>)

RECURSIVE GitStyleFrom(_, _, _, _, _, _, _)
\* The loop of parse_git_style_conflict_hunk; state is "Left", "Base" or
\* "Right".
GitStyleFrom(lines, i, expected_marker_len, state, left, base, right) ==
    IF i > Len(lines)
    THEN IF state = "Right" THEN <<left, base, right>> ELSE InvalidHunk
    ELSE LET line == lines[i]
             marker == parse_conflict_marker(line, expected_marker_len)
         IN  IF marker = "|"
             THEN IF state = "Left"
                  THEN GitStyleFrom(lines, i + 1, expected_marker_len, "Base",
                                    left, base, right)
                  ELSE InvalidHunk
             ELSE IF marker = "="
             THEN IF state = "Base"
                  THEN GitStyleFrom(lines, i + 1, expected_marker_len, "Right",
                                    left, base, right)
                  ELSE InvalidHunk
             ELSE IF state = "Left"
             THEN GitStyleFrom(lines, i + 1, expected_marker_len, state,
                               left \o line, base, right)
             ELSE IF state = "Base"
             THEN GitStyleFrom(lines, i + 1, expected_marker_len, state,
                               left, base \o line, right)
             ELSE GitStyleFrom(lines, i + 1, expected_marker_len, state,
                               left, base, right \o line)

\* parse_git_style_conflict_hunk
parse_git_style_conflict_hunk(input, expected_marker_len) ==
    GitStyleFrom(lines_with_terminator(input), 1, expected_marker_len,
                 "Left", <<>>, <<>>, <<>>)

\* A parse_conflict_hunk that reads every hunk as one of JJ style.
parse_conflict_hunk_jj_style_only(input, expected_marker_len) ==
    parse_jj_style_conflict_hunk(input, expected_marker_len)

\* parse_conflict_hunk: the first line of the hunk tells the style.
parse_conflict_hunk(input, expected_marker_len) ==
    LET lines == lines_with_terminator(input)
        initial_conflict_marker ==
            IF lines = <<>> THEN "none"
            ELSE parse_conflict_marker(lines[1], expected_marker_len)
    IN  IF initial_conflict_marker \in {"%", "-", "+"}
        THEN parse_jj_style_conflict_hunk(input, expected_marker_len)
        ELSE IF initial_conflict_marker \in {"none", "|"}
        THEN parse_git_style_conflict_hunk(input, expected_marker_len)
        ELSE InvalidHunk

\* No conflict has started: conflict_start is None.
NoStart == -1

RECURSIVE ParseConflictFrom(_, _, _, _, _, _, _, _, _)
\* The loop of parse_conflict over the lines of the input; pos is the byte
\* offset of line i.
ParseConflictFrom(input, lines, i, num, expected_marker_len, pos, resolved_start, conflict_start, hunks) ==
    IF i > Len(lines)
    THEN IF hunks = <<>> THEN <<>>
         ELSE IF resolved_start < Len(input)
         THEN Append(hunks, <<SubSeq(input, resolved_start + 1, Len(input))>>)
         ELSE hunks
    ELSE LET line == lines[i]
             marker == parse_conflict_marker(line, expected_marker_len)
             next_pos == pos + Len(line)
             body == SubSeq(input, conflict_start.pos + conflict_start.len + 1, pos)
             hunk == parse_conflict_hunk(body, expected_marker_len)
             resolved_slice == SubSeq(input, resolved_start + 1, conflict_start.pos)
         IN  IF marker = "<"
             THEN ParseConflictFrom(input, lines, i + 1, num, expected_marker_len,
                                    next_pos, resolved_start,
                                    [pos |-> pos, len |-> Len(line)], hunks)
             ELSE IF marker = ">" /\ conflict_start.pos # NoStart
             THEN IF num_sides(hunk) = num
                  THEN ParseConflictFrom(input, lines, i + 1, num, expected_marker_len,
                                         next_pos, next_pos,
                                         [pos |-> NoStart, len |-> 0],
                                         Append(FlushResolved(hunks, resolved_slice), hunk))
                  ELSE ParseConflictFrom(input, lines, i + 1, num, expected_marker_len,
                                         next_pos, resolved_start,
                                         [pos |-> NoStart, len |-> 0], hunks)
             ELSE ParseConflictFrom(input, lines, i + 1, num, expected_marker_len,
                                    next_pos, resolved_start, conflict_start, hunks)

\* parse_conflict: the hunks of the input, or <<>> (None) if it has no
\* conflict of num sides.
parse_conflict(input, num, expected_marker_len) ==
    IF input = <<>> THEN <<>>
    ELSE ParseConflictFrom(input, lines_with_terminator(input), 1, num,
                           expected_marker_len, 0, 0, [pos |-> NoStart, len |-> 0], <<>>)

\* The line feed that materializing added to a term of the last hunk is
\* taken off again, if the original term had none.
RemoveAddedNewlines(single_hunk, hunks) ==
    LET last_hunk == hunks[Len(hunks)]
    IN  IF is_resolved(last_hunk) THEN hunks
        ELSE [hunks EXCEPT ![Len(hunks)] =
                 [k \in 1..Len(last_hunk) |->
                     IF last_hunk[k] # <<>> /\ last_hunk[k][Len(last_hunk[k])] = "\n"
                        /\ has_no_eol(single_hunk[k])
                     THEN SubSeq(last_hunk[k], 1, Len(last_hunk[k]) - 1)
                     ELSE last_hunk[k]]]

\* A resolved hunk gives its bytes to the sides only.
ResolvedToSidesOnly(hunk, k) == IF k % 2 = 1 THEN hunk[1] ELSE <<>>

\* A resolved hunk gives its bytes to every term.
ResolvedToEveryTerm(hunk, k) == hunk[1]

\* What hunk gives to term k of the new contents.
TermPart(hunk, k) == IF is_resolved(hunk) THEN ResolvedToEveryTerm(hunk, k) ELSE hunk[k]

\* The contents of the terms, put together from the hunks.
ContentsOfHunks(hunks, terms) ==
    [k \in 1..terms |-> Concat([i \in 1..Len(hunks) |-> TermPart(hunks[i], k)])]

\* Merge::update_from_simplified for a Merge of two sides that simplified
\* to one: the term that was left gets the new value.
update_from_simplified(original, simplified) ==
    IF original[1] = original[2] THEN <<original[1], original[2], simplified[1]>>
    ELSE <<simplified[1], original[2], original[3]>>

\* update_from_content: the Merge of the new file ids.
update_from_content(ids, content, conflict_marker_style, conflict_marker_len) ==
    LET simplified_file_ids == simplify(ids)
        merge_hunk == simplified_file_ids
        old_content == materialize_merge_result(merge_hunk, merge(merge_hunk),
                                                conflict_marker_style)
        parsed == parse_conflict(content, num_sides(simplified_file_ids),
                                 conflict_marker_len)
        hunks == RemoveAddedNewlines(merge_hunk, parsed)
        new_file_ids == ContentsOfHunks(hunks, Len(simplified_file_ids))
    IN  IF content = old_content THEN ids
        ELSE IF parsed = <<>> THEN <<content>>
        ELSE IF Len(new_file_ids) # Len(ids)
        THEN update_from_simplified(ids, new_file_ids)
        ELSE new_file_ids

(***************************************************************************)
(* Conflict marker specification: a conflict of at most two sides is       *)
(* materialized with one style, and update_from_content reads the output   *)
(* with a style of its own and the marker length of the materialization.   *)
(***************************************************************************)
\* The most lines of the files of a conflict, taken together.
MaxConflictLines == 6

\* The most lines of a conflict whose files may lack the last line feed.
MaxNoEolLines == 5

\* The lines the files are made of: a line of text and a line that starts
\* like a conflict marker, but a short one.
ContentLines == {<<"a", "\n">>, <<"<", "<", "<", "<", "\n">>}

RECURSIVE FilesOfLines(_)
\* The files of n lines.
FilesOfLines(n) ==
    IF n = 0 THEN {<<>>}
    ELSE {line \o rest : line \in ContentLines, rest \in FilesOfLines(n - 1)}

\* The conflicts: Merges of one side and of two sides.
\* The files of n lines and those files without their last line feed.
FilesNoEol(n) ==
    FilesOfLines(n) \cup {SubSeq(f, 1, Len(f) - 1) : f \in FilesOfLines(n) \ {<<>>}}

\* The numbers of lines of the terms of a conflict of at most `lines` lines.
LineCounts(lines) ==
    {m \in (0..lines) \X (0..lines) \X (0..lines) : m[1] + m[2] + m[3] <= lines}

\* The conflicts: Merges of one side and of two sides. The files end with
\* a line feed, but for the conflicts of at most MaxNoEolLines lines, whose
\* files may also lack the last one.
Conflicts ==
    UNION {{<<resolved>>} : resolved \in UNION {FilesNoEol(n) : n \in 0..MaxNoEolLines}}
    \cup UNION {{<<resolved>>} : resolved \in UNION {FilesOfLines(n) : n \in 0..MaxConflictLines}}
    \cup UNION {FilesOfLines(n[1]) \X FilesOfLines(n[2]) \X FilesOfLines(n[3]) :
                   n \in LineCounts(MaxConflictLines)}
    \cup UNION {FilesNoEol(n[1]) \X FilesNoEol(n[2]) \X FilesNoEol(n[3]) :
                   n \in LineCounts(MaxNoEolLines)}

InitConflict ==
    /\ IdleIndex
    /\ IdleDiff
    /\ IdleAbsorb
    /\ IdleCommit
    /\ IdleRest
    /\ \E terms \in Conflicts :
          file_ids = [made |-> TRUE, terms |-> terms, merge_result |-> merge(terms)]
    /\ materialized = NotDone
    /\ update_result = NotDone

\* materialize_merge_result_to_bytes(&contents, conflict_marker_style)
Materialize ==
    /\ file_ids.made
    /\ ~materialized.done
    /\ \E style \in Styles :
          materialized' =
              [done |-> TRUE, style |-> style,
               marker_len |-> choose_materialized_conflict_marker_len(file_ids.terms),
               content |-> materialize_merge_result(file_ids.terms,
                                                    file_ids.merge_result, style)]
    /\ UNCHANGED <<file_ids, update_result, diffVars, outsideConflict>>

\* update_from_content(&conflict, store, path, content, style, marker_len)
\* on the materialized content as it is.
UpdateFromContent ==
    /\ materialized.done
    /\ ~update_result.done
    /\ \E style \in Styles :
          update_result' =
              [done |-> TRUE, style |-> style,
               new_file_ids |-> update_from_content(file_ids.terms, materialized.content,
                                                    style, materialized.marker_len)]
    /\ UNCHANGED <<file_ids, materialized, diffVars, outsideConflict>>

NextConflict ==
    \/ Materialize
    \/ UpdateFromContent

SpecConflict == InitConflict /\ [][NextConflict]_vars

ResolvedChangedRegion(terms) ==
    /\ ~is_resolved(terms)
    /\ \E diff_hunk \in SeqToSet(DiffHunkParts(terms)) :
          /\ diff_hunk.kind = "Different"
          /\ trivial_merge(TermsOfHunk(diff_hunk)) # <<>>

TermLines ==
    UNION {SeqToSet(lines_with_terminator(file_ids.terms[k])) : k \in 1..Len(file_ids.terms)}

\* The lengths of the runs of one marker character that start a line of a
\* side or a base.
MarkerRunLens ==
    {LeadingRun(line, 0) : line \in {l \in TermLines : l # <<>> /\ l[1] \in MarkerChars}}

\* C23 as stated: the marker length is the smallest one that is at least
\* the minimum and greater than the longest run of marker characters that
\* starts a line.
C23_MarkerLenJustAboveLongestRun ==
    materialized.done =>
        /\ materialized.marker_len >= MIN_CONFLICT_MARKER_LEN
        /\ \A run \in MarkerRunLens : materialized.marker_len > run
        /\ \A n \in MIN_CONFLICT_MARKER_LEN..(materialized.marker_len - 1) :
               \E run \in MarkerRunLens : n <= run

\* C23: the marker length is at least the minimum and at least 4 more than
\* every conflict marker that starts a line of a side or a base (a run of
\* one marker character followed by whitespace or by the end of the line);
\* it is the smallest such length, so it is the minimum or exactly 4 more
\* than such a marker; no line of the contents is a marker of that length.
C23_MarkerLenIncrementAboveLongestMarker ==
    materialized.done =>
        LET markers == {parse_conflict_marker_any_len(line) : line \in TermLines}
            lens == {marker.len : marker \in {m \in markers : m.some}}
        IN  /\ materialized.marker_len >= MIN_CONFLICT_MARKER_LEN
            /\ \A len \in lens : materialized.marker_len >= len + CONFLICT_MARKER_LEN_INCREMENT
            /\ \/ materialized.marker_len = MIN_CONFLICT_MARKER_LEN
               \/ materialized.marker_len - CONFLICT_MARKER_LEN_INCREMENT \in lens
            /\ \A line \in TermLines :
                   parse_conflict_marker(line, materialized.marker_len) = "none"

\* A conflict with a marker of 4 characters in a side was materialized
\* with markers of 8 characters.
C23_Witness ==
    /\ materialized.done
    /\ ~is_resolved(file_ids.terms)
    /\ 4 \in MarkerRunLens
    /\ materialized.marker_len = 8

(***************************************************************************)
(* Merge values specification: a Merge of a few values is simplified, and  *)
(* the result is simplified again.                                         *)
(***************************************************************************)
\* The most remove terms of a Merge.
MaxRemoves == 2

\* The values of the terms are 1..NumValues.
NumValues == 3

\* The most calls of simplify in a row.
MaxSimplify == 2

\* The Merges of k removes and k + 1 adds.
MergeTerms == UNION {[1..(2 * k + 1) -> 1..NumValues] : k \in 0..MaxRemoves}

InitMerge ==
    /\ IdleCore
    /\ IdlePrefix
    /\ IdleChangeId
    /\ IdleTx
    /\ IdleWc
    /\ IdleRewrite
    /\ IdleLate
    /\ merge_values \in MergeTerms
    /\ simplify_results = <<>>

\* Merge::simplify of the Merge, or of the result of the call before.
Simplify ==
    /\ merge_values # <<>>
    /\ Len(simplify_results) < MaxSimplify
    /\ simplify_results' =
           Append(simplify_results,
                  simplify(IF simplify_results = <<>> THEN merge_values
                           ELSE simplify_results[Len(simplify_results)]))
    /\ UNCHANGED <<merge_values, outsideMerge>>

NextMerge == Simplify

SpecMerge == InitMerge /\ [][NextMerge]_vars

\* The adds are the terms at the odd places, the removes those at the even.
NumAdds(values) == Cardinality({i \in 1..Len(values) : i % 2 = 1})

NumRemoves(values) == Cardinality({i \in 1..Len(values) : i % 2 = 0})

\* C11: simplifying a simplified Merge changes nothing; a simplified Merge
\* has one more add than removes, and a resolved one has one add and no
\* remove.
C11_SimplifyIdempotent ==
    /\ \A i \in 1..Len(simplify_results) :
          /\ NumAdds(simplify_results[i]) = NumRemoves(simplify_results[i]) + 1
          /\ is_resolved(simplify_results[i])
                 => /\ NumAdds(simplify_results[i]) = 1
                    /\ NumRemoves(simplify_results[i]) = 0
    /\ Len(simplify_results) >= 2 => simplify_results[2] = simplify_results[1]

\* A Merge of two removes lost one of them and stayed a conflict, and was
\* simplified once more.
C11_Witness ==
    /\ Len(simplify_results) = 2
    /\ Len(merge_values) = 5
    /\ Len(simplify_results[1]) = 3

(***************************************************************************)
(* Id prefixes: PrefixResolution, the lookups of one segment and the folds *)
(* of CompositeIndex over the chain of segments                            *)
(***************************************************************************)
\* An id is the sequence of its hex digits; a segment is the sequence of its
\* local entries, each a record with the commit_id of the entry.

\* PrefixResolution
NoMatch == [kind |-> "NoMatch"]

SingleMatch(value) == [kind |-> "SingleMatch", value |-> value]

AmbiguousMatch == [kind |-> "AmbiguousMatch"]

\* PrefixResolution::plus
plus(acc_match, other) ==
    IF acc_match = NoMatch THEN other
    ELSE IF other = NoMatch THEN acc_match
    ELSE AmbiguousMatch

\* HexPrefix::matches
matches(prefix, id) ==
    /\ Len(prefix) <= Len(id)
    /\ \A i \in 1..Len(prefix) : id[i] = prefix[i]

RECURSIVE common_hex_len(_, _)
\* hex_util::common_hex_len: the number of leading hex digits in common.
common_hex_len(a, b) ==
    IF a = <<>> \/ b = <<>> \/ Head(a) # Head(b) THEN 0
    ELSE 1 + common_hex_len(Tail(a), Tail(b))

RECURSIVE IdLess(_, _)
\* The order of ids: that of their bytes, the first difference decides.
IdLess(a, b) ==
    IF b = <<>> THEN FALSE
    ELSE IF a = <<>> THEN TRUE
    ELSE IF Head(a) # Head(b) THEN Head(a) < Head(b)
    ELSE IdLess(Tail(a), Tail(b))

\* Option<id>::max and ::min over a set of ids: <<>> is None.
MaxId(ids) == IF ids = {} THEN <<>> ELSE <<CHOOSE x \in ids : \A y \in ids \ {x} : IdLess(y, x)>>

MinId(ids) == IF ids = {} THEN <<>> ELSE <<CHOOSE x \in ids : \A y \in ids \ {x} : IdLess(x, y)>>

\* The commit ids of the local entries of a segment.
LocalCommitIds(segment) == {segment[i].commit_id : i \in 1..Len(segment)}

\* IndexSegment::resolve_commit_id_prefix among the local entries.
SegmentResolveCommitIdPrefix(segment, prefix) ==
    LET found == {id \in LocalCommitIds(segment) : matches(prefix, id)}
    IN  IF found = {} THEN NoMatch
        ELSE IF Cardinality(found) = 1 THEN SingleMatch(CHOOSE id \in found : TRUE)
        ELSE AmbiguousMatch

\* IndexSegment::resolve_neighbor_commit_ids among the local entries:
\* <<prev, next>>, each <<>> or <<id>>.
SegmentResolveNeighborCommitIds(segment, commit_id) ==
    <<MaxId({id \in LocalCommitIds(segment) : IdLess(id, commit_id)}),
      MinId({id \in LocalCommitIds(segment) : IdLess(commit_id, id)})>>

RECURSIVE ResolveCommitIdPrefixFold(_, _, _, _)
RECURSIVE ResolveCommitIdPrefixFirstSegment(_, _, _, _)
\* A fold that stops at the first segment with a match.
ResolveCommitIdPrefixFirstSegment(segments, k, acc_match, prefix) ==
    IF k > Len(segments) THEN acc_match
    ELSE ResolveCommitIdPrefixFirstSegment(segments, k + 1,
             IF acc_match # NoMatch THEN acc_match
             ELSE plus(acc_match, SegmentResolveCommitIdPrefix(segments[k], prefix)),
             prefix)

\* The fold of resolve_commit_id_prefix over ancestor_index_segments().
ResolveCommitIdPrefixFold(segments, k, acc_match, prefix) ==
    IF k > Len(segments) THEN acc_match
    ELSE ResolveCommitIdPrefixFold(segments, k + 1,
             IF acc_match = AmbiguousMatch THEN acc_match
             ELSE plus(acc_match, SegmentResolveCommitIdPrefix(segments[k], prefix)),
             prefix)

\* A lookup in the first segment of the chain only.
resolve_commit_id_prefix_in_child(segments, prefix) ==
    SegmentResolveCommitIdPrefix(segments[1], prefix)

\* Index::resolve_commit_id_prefix
resolve_commit_id_prefix(segments, prefix) ==
    ResolveCommitIdPrefixFold(segments, 1, NoMatch, prefix)

RECURSIVE ResolveNeighborsReduce(_, _, _, _)
\* The reduce of resolve_neighbor_commit_ids over the segments after the
\* first one.
ResolveNeighborsReduce(segments, k, acc, commit_id) ==
    IF k > Len(segments) THEN acc
    ELSE ResolveNeighborsReduce(segments, k + 1,
             <<MaxId(SeqToSet(acc[1])
                     \cup SeqToSet(SegmentResolveNeighborCommitIds(segments[k], commit_id)[1])),
               MinId(SeqToSet(acc[2])
                     \cup SeqToSet(SegmentResolveNeighborCommitIds(segments[k], commit_id)[2]))>>,
             commit_id)

\* The neighbours among the entries of the first segment only.
ResolveNeighborsFirstSegmentOnly(segments, commit_id) ==
    SegmentResolveNeighborCommitIds(segments[1], commit_id)

\* CompositeIndex::resolve_neighbor_commit_ids; the chain has a segment.
resolve_neighbor_commit_ids(segments, commit_id) ==
    ResolveNeighborsReduce(segments, 2,
        SegmentResolveNeighborCommitIds(segments[1], commit_id), commit_id)

\* Index::shortest_unique_commit_id_prefix_len
shortest_unique_commit_id_prefix_len(segments, commit_id) ==
    LET neighbors == resolve_neighbor_commit_ids(segments, commit_id)
        lens == {common_hex_len(commit_id, id) + 1 :
                    id \in SeqToSet(neighbors[1]) \cup SeqToSet(neighbors[2])}
    IN  IF lens = {} THEN 0 ELSE SetMax(lens)

\* ---- the specification of the commit id prefixes ----
IdHexLen == 2

MaxIndexed == 3

MaxSegments == 2

HexDigits == {0, 1}

CommitIds == [1..IdHexLen -> HexDigits]

HexPrefixes == UNION {[1..n -> HexDigits] : n \in 0..IdHexLen}

RECURSIVE IdsAscSeq(_)
\* The ids of a set in ascending order.
IdsAscSeq(ids) ==
    IF ids = {} THEN <<>>
    ELSE <<MinId(ids)[1]>> \o IdsAscSeq(ids \ {MinId(ids)[1]})

\* The segment whose lookup table holds the given commit ids.
SegmentOf(ids) == [i \in 1..Cardinality(ids) |-> [commit_id |-> IdsAscSeq(ids)[i]]]

RECURSIVE SegmentChain(_, _, _)
\* The chain of num segments, owner giving the segment of each commit.
SegmentChain(owner, k, num) ==
    IF k > num THEN <<>>
    ELSE <<SegmentOf({id \in DOMAIN owner : owner[id] = k})>> \o SegmentChain(owner, k + 1, num)

\* The commit ids of all the segments of the chain.
IndexedCommitIds(segments) == UNION {LocalCommitIds(segments[k]) : k \in 1..Len(segments)}

\* Any distribution of at most MaxIndexed commits over at most MaxSegments
\* segments; a commit is an entry of one segment only.
InitPrefix ==
    /\ IdleCore
    /\ IdleMerge
    /\ IdleChangeId
    /\ IdleTx
    /\ IdleWc
    /\ IdleRewrite
    /\ IdleLate
    /\ prefix_query = NoQuery
    /\ \E ids \in {c \in SUBSET CommitIds : Cardinality(c) <= MaxIndexed} :
       \E num \in 1..MaxSegments :
       \E owner \in [ids -> 1..num] :
           index_segments = SegmentChain(owner, 1, num)

\* A call of resolve_commit_id_prefix.
ResolveCommitIdPrefix ==
    /\ \E prefix \in HexPrefixes :
           prefix_query' = [op |-> "resolve_commit_id_prefix", prefix |-> prefix,
                            result |-> resolve_commit_id_prefix(index_segments, prefix)]
    /\ UNCHANGED <<index_segments, outsidePrefix>>

\* A call of shortest_unique_commit_id_prefix_len.
ShortestUniqueCommitIdPrefixLen ==
    /\ \E commit_id \in CommitIds :
           prefix_query' = [op |-> "shortest_unique_commit_id_prefix_len", commit_id |-> commit_id,
                            result |-> shortest_unique_commit_id_prefix_len(index_segments, commit_id)]
    /\ UNCHANGED <<index_segments, outsidePrefix>>

NextPrefix == ResolveCommitIdPrefix \/ ShortestUniqueCommitIdPrefixLen

SpecPrefix == InitPrefix /\ [][NextPrefix]_vars

\* The indexed commit ids that start with the prefix.
MatchingCommitIds(segments, prefix) == {id \in IndexedCommitIds(segments) : matches(prefix, id)}

\* C12: resolve_commit_id_prefix returns NoMatch exactly when no indexed commit
\* id starts with the prefix, SingleMatch(id) exactly when id is the only one
\* that does, and AmbiguousMatch exactly when two or more do, however the
\* commits are distributed over the segments.
C12_ResolveCommitIdPrefixExact ==
    prefix_query.op = "resolve_commit_id_prefix" =>
        LET found == MatchingCommitIds(index_segments, prefix_query.prefix)
        IN  /\ prefix_query.result \in {NoMatch, AmbiguousMatch} \cup {SingleMatch(id) : id \in CommitIds}
            /\ prefix_query.result = NoMatch <=> found = {}
            /\ \A id \in CommitIds : prefix_query.result = SingleMatch(id) <=> found = {id}
            /\ prefix_query.result = AmbiguousMatch <=> Cardinality(found) >= 2

\* Two commits of different segments start with the prefix and the result is
\* AmbiguousMatch.
C12_Witness ==
    /\ prefix_query.op = "resolve_commit_id_prefix"
    /\ prefix_query.result = AmbiguousMatch
    /\ Len(prefix_query.prefix) >= 1
    /\ Len(index_segments) = 2
    /\ \A k \in 1..2 : Cardinality({id \in LocalCommitIds(index_segments[k]) : matches(prefix_query.prefix, id)}) = 1

\* C13: when a prefix resolves to SingleMatch(x), every longer prefix that
\* extends it resolves to SingleMatch(x) if it is still a prefix of x and to
\* NoMatch otherwise.
C13_LongerPrefixKeepsMatch ==
    (prefix_query.op = "resolve_commit_id_prefix" /\ prefix_query.result.kind = "SingleMatch") =>
        \A longer \in HexPrefixes :
            (Len(longer) > Len(prefix_query.prefix) /\ matches(prefix_query.prefix, longer)) =>
                resolve_commit_id_prefix(index_segments, longer)
                    = IF matches(longer, prefix_query.result.value) THEN prefix_query.result ELSE NoMatch

\* A prefix shorter than an id resolved to a commit of the parent segment,
\* the child segment holding other commits.
C13_Witness ==
    /\ prefix_query.op = "resolve_commit_id_prefix"
    /\ prefix_query.result.kind = "SingleMatch"
    /\ Len(prefix_query.prefix) = 1
    /\ Len(index_segments) = 2
    /\ prefix_query.result.value \in LocalCommitIds(index_segments[2])
    /\ Len(index_segments[1]) = 2

\* C14: for an indexed commit id, shortest_unique_commit_id_prefix_len is the
\* least n such that no other indexed commit id shares the first n digits:
\* the first n digits resolve to SingleMatch of the id and every shorter
\* prefix of the id resolves to AmbiguousMatch.
C14_ShortestUniquePrefixLen ==
    (/\ prefix_query.op = "shortest_unique_commit_id_prefix_len"
     /\ prefix_query.commit_id \in IndexedCommitIds(index_segments)) =>
        /\ prefix_query.result \in 0..IdHexLen
        /\ \A other \in IndexedCommitIds(index_segments) \ {prefix_query.commit_id} :
               SubSeq(other, 1, prefix_query.result) # SubSeq(prefix_query.commit_id, 1, prefix_query.result)
        /\ resolve_commit_id_prefix(index_segments, SubSeq(prefix_query.commit_id, 1, prefix_query.result))
               = SingleMatch(prefix_query.commit_id)
        /\ \A n \in 0..(prefix_query.result - 1) :
               resolve_commit_id_prefix(index_segments, SubSeq(prefix_query.commit_id, 1, n)) = AmbiguousMatch
        /\ Cardinality(IndexedCommitIds(index_segments)) = 1 => prefix_query.result = 0

\* The nearest neighbour of the id is an entry of another segment than the
\* one that holds the id.
C14_Witness ==
    /\ prefix_query.op = "shortest_unique_commit_id_prefix_len"
    /\ Len(index_segments) = 2
    /\ prefix_query.commit_id \in LocalCommitIds(index_segments[1])
    /\ prefix_query.result = IdHexLen
    /\ shortest_unique_commit_id_prefix_len(<<index_segments[1]>>, prefix_query.commit_id) < IdHexLen

(***************************************************************************)
(* ChangeIdIndexImpl: change id prefixes filtered by the commits reachable *)
(* from the heads, with the AncestorsBitSet cache behind a mutex           *)
(***************************************************************************)
\* An entry of a segment is [commit_id, change_id, parent_positions]; global
\* positions count from 0, the entries of the parent segments first.

RECURSIVE num_parent_commits(_, _)
\* IndexSegment::num_parent_commits of the k-th segment of the chain: the
\* entries of the segments after it.
num_parent_commits(segments, k) ==
    IF k >= Len(segments) THEN 0
    ELSE Len(segments[k + 1]) + num_parent_commits(segments, k + 1)

\* CompositeIndex::num_commits
NumIndexed(segments) == num_parent_commits(segments, 0)

\* CompositeIndex::entry_by_pos
EntryByPos(segments, pos) ==
    LET k == CHOOSE j \in 1..Len(segments) :
                 num_parent_commits(segments, j) <= pos /\ pos < num_parent_commits(segments, j - 1)
    IN  segments[k][pos - num_parent_commits(segments, k) + 1]

\* CompositeIndex::commit_id_to_pos of an indexed commit id.
CommitIdToPos(segments, commit_id) ==
    CHOOSE pos \in 0..(NumIndexed(segments) - 1) : EntryByPos(segments, pos).commit_id = commit_id

\* IndexSegment::resolve_change_id_prefix among the local entries: the
\* change id and its local positions in ascending order.
SegmentResolveChangeIdPrefix(segment, prefix) ==
    LET found == {segment[i].change_id : i \in {j \in 1..Len(segment) : matches(prefix, segment[j].change_id)}}
    IN  IF found = {} THEN NoMatch
        ELSE IF Cardinality(found) = 1
             THEN SingleMatch(<<CHOOSE id \in found : TRUE,
                                SetToAscSeq({i - 1 : i \in {j \in 1..Len(segment) : segment[j].change_id \in found}})>>)
        ELSE AmbiguousMatch

\* to_global_pos over the local positions.
ToGlobalPositions(local_positions, num_parents) ==
    [i \in 1..Len(local_positions) |-> local_positions[i] + num_parents]

\* The match arms of the fold of resolve_change_id_prefix that keep every
\* position of the change id.
MergeChangeIdMatch(acc_match, local_match, num_parents) ==
    IF acc_match = NoMatch
    THEN IF local_match.kind = "SingleMatch"
         THEN SingleMatch(<<local_match.value[1], ToGlobalPositions(local_match.value[2], num_parents)>>)
         ELSE local_match
    ELSE IF local_match = NoMatch THEN acc_match
    ELSE IF acc_match = AmbiguousMatch \/ local_match = AmbiguousMatch THEN AmbiguousMatch
    ELSE IF acc_match.value[1] # local_match.value[1] THEN AmbiguousMatch
    ELSE SingleMatch(<<acc_match.value[1],
                       ToGlobalPositions(local_match.value[2], num_parents) \o acc_match.value[2]>>)

RECURSIVE ResolveChangeIdPrefixFold(_, _, _, _)
\* The fold of resolve_change_id_prefix over ancestor_index_segments().
ResolveChangeIdPrefixFold(segments, k, acc_match, prefix) ==
    IF k > Len(segments) THEN acc_match
    ELSE ResolveChangeIdPrefixFold(segments, k + 1,
             IF acc_match = AmbiguousMatch THEN acc_match
             ELSE MergeChangeIdMatch(acc_match, SegmentResolveChangeIdPrefix(segments[k], prefix),
                                     num_parent_commits(segments, k)),
             prefix)

\* CompositeIndex::resolve_change_id_prefix
resolve_change_id_prefix(segments, prefix) ==
    ResolveChangeIdPrefixFold(segments, 1, NoMatch, prefix)

\* ---- AncestorsBitSet ----
\* The bits of one word of the bitset; u64::BITS scaled down.
WordBits == 2

\* to_bitset_pos: the word that holds the bit of a position.
BitsetPos(pos) == pos \div WordBits

\* AncestorsBitSet::with_capacity; the bitset is the set of the positions
\* whose bit is set.
with_capacity == [bitset |-> {}, last_visited_bitset_pos |-> 0]

\* AncestorsBitSet::add_head
BitSetAddHead(set, pos) ==
    [bitset |-> set.bitset \cup {pos},
     last_visited_bitset_pos |-> IF set.last_visited_bitset_pos > BitsetPos(pos) + 1
                                 THEN set.last_visited_bitset_pos ELSE BitsetPos(pos) + 1]

\* AncestorsBitSet::contains
contains(set, pos) == pos \in set.bitset

RECURSIVE VisitWord(_, _, _, _)
\* visit_until: the bits of one word, the highest first; the parents of a
\* visited position are set, those of the same word are visited too.
VisitWord(segments, bitset, word, unvisited_bits) ==
    IF unvisited_bits = {} THEN bitset
    ELSE LET current_pos == SetMax(unvisited_bits)
             parents == SeqToSet(EntryByPos(segments, current_pos).parent_positions)
         IN  VisitWord(segments, bitset \cup parents, word,
                       (unvisited_bits \ {current_pos}) \cup {p \in parents : BitsetPos(p) = word})

RECURSIVE VisitWords(_, _, _, _)
\* visit_until: the words from the last visited one down to the word to visit.
VisitWords(segments, bitset, word, to_visit_bitset_pos) ==
    IF word < to_visit_bitset_pos THEN bitset
    ELSE VisitWords(segments,
                    VisitWord(segments, bitset, word, {p \in bitset : BitsetPos(p) = word}),
                    word - 1, to_visit_bitset_pos)

\* AncestorsBitSet::visit_until
visit_until(segments, set, to_visit_pos) ==
    IF BitsetPos(to_visit_pos) >= set.last_visited_bitset_pos THEN set
    ELSE [bitset |-> VisitWords(segments, set.bitset, set.last_visited_bitset_pos - 1, BitsetPos(to_visit_pos)),
          last_visited_bitset_pos |-> BitsetPos(to_visit_pos)]

RECURSIVE AddHeads(_, _, _)
\* ChangeIdIndexImpl::new: the reachable set with the heads added.
AddHeads(segments, set, heads) ==
    IF heads = <<>> THEN set
    ELSE AddHeads(segments, BitSetAddHead(set, CommitIdToPos(segments, Head(heads))), Tail(heads))

\* ChangeIdIndexImpl::new
ChangeIdIndexImpl_new(segments, heads) == AddHeads(segments, with_capacity, heads)

\* A filter that keeps every position of the change id.
ReachableCommitIdsUnfiltered(segments, set, positions) ==
    [i \in 1..Len(positions) |-> EntryByPos(segments, positions[i]).commit_id]

\* resolve_prefix: the commit ids of the positions the set contains.
ReachableCommitIds(segments, set, positions) ==
    LET kept == SelectSeq(positions, LAMBDA pos : contains(set, pos))
    IN  [i \in 1..Len(kept) |-> EntryByPos(segments, kept[i]).commit_id]

\* resolve_prefix: the result of the SingleMatch arm.
FilteredMatch(reachable_commit_ids) ==
    IF reachable_commit_ids = <<>> THEN NoMatch ELSE SingleMatch(reachable_commit_ids)

\* ChangeIdIndex::resolve_prefix on a wrapper whose reachable set is set.
resolve_prefix(segments, set, prefix) ==
    LET found == resolve_change_id_prefix(segments, prefix)
    IN  IF found.kind # "SingleMatch" THEN found
        ELSE FilteredMatch(ReachableCommitIds(segments,
                               visit_until(segments, set, found.value[2][1]), found.value[2]))

\* ---- the specification of the shared wrapper ----
MaxChangeCommits == 3

ChangeIdHexLen == 1

NumThreads == 2

Threads == 1..NumThreads

ChangeIdValues == [1..ChangeIdHexLen -> HexDigits]

ChangeIdPrefixes == UNION {[1..n -> HexDigits] : n \in 0..ChangeIdHexLen}

\* The parents of the entry at pos: earlier positions, in ascending order.
ParentChoices(pos) == {SetToAscSeq(ps) : ps \in SUBSET (0..(pos - 1))}

RECURSIVE EntriesFrom(_, _, _)
\* The entries of the positions from pos on.
EntriesFrom(change_ids, parents, pos) ==
    IF pos >= Len(change_ids) THEN <<>>
    ELSE <<[commit_id |-> <<pos>>, change_id |-> change_ids[pos + 1], parent_positions |-> parents[pos + 1]]>>
         \o EntriesFrom(change_ids, parents, pos + 1)

\* The chains of at most MaxSegments segments that hold the entries.
ChainsOf(entries) ==
    {<<entries>>} \cup
    {<<SubSeq(entries, num_parents + 1, Len(entries)), SubSeq(entries, 1, num_parents)>> :
         num_parents \in {c \in 0..Len(entries) : MaxSegments >= 2}}

\* No resolve_prefix call was made by the thread.
NotCalled == [kind |-> "None"]

\* A wrapper constructed over an index of at most MaxChangeCommits commits
\* with any heads, shared by the threads.
InitChangeId ==
    /\ IdleCore
    /\ IdleMerge
    /\ IdlePrefix
    /\ IdleTx
    /\ IdleWc
    /\ IdleRewrite
    /\ IdleLate
    /\ \E n \in 0..MaxChangeCommits :
       \E change_ids \in [1..n -> ChangeIdValues] :
       \E parents \in [1..n -> UNION {ParentChoices(pos) : pos \in 0..(n - 1)}] :
       \E head_positions \in SUBSET (0..(n - 1)) :
           /\ \A i \in 1..n : parents[i] \in ParentChoices(i - 1)
           /\ \E segments \in ChainsOf(EntriesFrom(change_ids, parents, 0)) :
                  /\ change_index = [segments |-> segments,
                                     heads |-> [i \in 1..Cardinality(head_positions) |->
                                                    <<SetToAscSeq(head_positions)[i]>>]]
                  /\ reachable_set = ChangeIdIndexImpl_new(segments,
                                         [i \in 1..Cardinality(head_positions) |->
                                              <<SetToAscSeq(head_positions)[i]>>])
    /\ mutex_owner = 0
    /\ callers = [t \in Threads |-> [pc |-> "idle", prefix |-> <<>>, found |-> NoMatch, result |-> NotCalled]]

\* A thread calls resolve_prefix: the index resolves the prefix among all
\* entries; NoMatch and AmbiguousMatch are returned without the lock.
CallResolvePrefix(t) ==
    /\ callers[t].pc = "idle"
    /\ \E prefix \in ChangeIdPrefixes :
           LET found == resolve_change_id_prefix(change_index.segments, prefix)
           IN  callers' = [callers EXCEPT ![t] =
                   IF found.kind = "SingleMatch"
                   THEN [pc |-> "lock", prefix |-> prefix, found |-> found, result |-> NotCalled]
                   ELSE [pc |-> "idle", prefix |-> prefix, found |-> NoMatch, result |-> found]]
    /\ UNCHANGED <<change_index, reachable_set, mutex_owner, outsideChangeId>>

\* A visit down to the word of the last position only.
LockAndVisitUntilLast(t) ==
    /\ callers[t].pc = "lock"
    /\ mutex_owner = 0
    /\ mutex_owner' = t
    /\ reachable_set' = visit_until(change_index.segments, reachable_set,
                                     callers[t].found.value[2][Len(callers[t].found.value[2])])
    /\ callers' = [callers EXCEPT ![t].pc = "filter"]
    /\ UNCHANGED <<change_index, outsideChangeId>>

\* The thread takes the lock once it is free and visits the set down to the
\* word of the first position.
LockAndVisitUntil(t) ==
    /\ callers[t].pc = "lock"
    /\ mutex_owner = 0
    /\ mutex_owner' = t
    /\ reachable_set' = visit_until(change_index.segments, reachable_set, callers[t].found.value[2][1])
    /\ callers' = [callers EXCEPT ![t].pc = "filter"]
    /\ UNCHANGED <<change_index, outsideChangeId>>

\* The thread filters the positions by the set, drops the guard and returns.
FilterAndUnlock(t) ==
    /\ callers[t].pc = "filter"
    /\ mutex_owner = t
    /\ mutex_owner' = 0
    /\ callers' = [callers EXCEPT ![t] =
           [pc |-> "idle", prefix |-> callers[t].prefix, found |-> NoMatch,
            result |-> FilteredMatch(ReachableCommitIds(change_index.segments, reachable_set,
                                                        callers[t].found.value[2]))]]
    /\ UNCHANGED <<change_index, reachable_set, outsideChangeId>>

NextChangeId ==
    \E t \in Threads : CallResolvePrefix(t) \/ LockAndVisitUntil(t) \/ FilterAndUnlock(t)

SpecChangeId == InitChangeId /\ [][NextChangeId]_vars

RECURSIVE IsAncestorOrSelf(_, _, _)
\* pos is anc or is reached from it over parent edges.
IsAncestorOrSelf(segments, anc, pos) ==
    \/ anc = pos
    \/ \E parent \in SeqToSet(EntryByPos(segments, pos).parent_positions) : IsAncestorOrSelf(segments, anc, parent)

\* The commits of the change id that are ancestors-or-self of a head.
VisibleCommitIds(index, change_id) ==
    {EntryByPos(index.segments, pos).commit_id :
         pos \in {p \in 0..(NumIndexed(index.segments) - 1) :
                     /\ EntryByPos(index.segments, p).change_id = change_id
                     /\ \E head \in SeqToSet(index.heads) :
                            IsAncestorOrSelf(index.segments, p, CommitIdToPos(index.segments, head))}}

\* The change ids of the index that start with the prefix.
MatchingChangeIds(segments, prefix) ==
    {EntryByPos(segments, pos).change_id : pos \in {p \in 0..(NumIndexed(segments) - 1) :
                                                       matches(prefix, EntryByPos(segments, p).change_id)}}

\* The call of the thread has returned.
Returned(t) == callers[t].pc = "idle" /\ callers[t].result # NotCalled

\* C15: when the prefix matches exactly one change id among all indexed
\* commits, resolve_prefix returns SingleMatch with exactly the commits of
\* that change id that are ancestors-or-self of the heads, each once, and
\* NoMatch when there is none.
C15_ResolvePrefixReachableOnly ==
    \A t \in Threads :
        (Returned(t) /\ Cardinality(MatchingChangeIds(change_index.segments, callers[t].prefix)) = 1) =>
            LET visible == VisibleCommitIds(change_index,
                               CHOOSE id \in MatchingChangeIds(change_index.segments, callers[t].prefix) : TRUE)
            IN  IF visible = {} THEN callers[t].result = NoMatch
                ELSE /\ callers[t].result.kind = "SingleMatch"
                     /\ SeqToSet(callers[t].result.value) = visible
                     /\ Len(callers[t].result.value) = Cardinality(visible)

\* On a chain of two segments a change id resolved by a non-empty prefix has
\* two visible commits, one of them reachable from the heads only through a parent edge and
\* another one not reachable.
C15_Witness ==
    \E t \in Threads :
        /\ Returned(t)
        /\ callers[t].result.kind = "SingleMatch"
        /\ Len(change_index.segments) = 2
        /\ Len(callers[t].result.value) = 2
        /\ callers[t].prefix # <<>>
        /\ \E id \in SeqToSet(callers[t].result.value) : id \notin SeqToSet(change_index.heads)
        /\ \E pos \in 0..(NumIndexed(change_index.segments) - 1) :
               /\ matches(callers[t].prefix, EntryByPos(change_index.segments, pos).change_id)
               /\ EntryByPos(change_index.segments, pos).commit_id \notin SeqToSet(callers[t].result.value)

\* C16: every returned resolve_prefix call of the shared wrapper has the
\* result of the same call on a wrapper newly constructed with the same index
\* and heads, whatever calls the threads made before and in whatever order.
C16_SharedCacheOnlyMemoizes ==
    \A t \in Threads :
        Returned(t) =>
            callers[t].result = resolve_prefix(change_index.segments,
                                    ChangeIdIndexImpl_new(change_index.segments, change_index.heads),
                                    callers[t].prefix)

\* The calls of both threads returned matches of different prefixes on an
\* index of two words with one head, the set visited down to its first word.
C16_Witness ==
    \E t \in Threads : \E other \in Threads \ {t} :
        /\ Returned(t)
        /\ callers[t].result.kind = "SingleMatch"
        /\ Returned(other)
        /\ callers[other].result.kind = "SingleMatch"
        /\ callers[other].prefix # callers[t].prefix
        /\ reachable_set.last_visited_bitset_pos = 0
        /\ BitsetPos(NumIndexed(change_index.segments) - 1) = 1
        /\ Len(change_index.heads) = 1

(***************************************************************************)
(* Concurrent transactions: each thread starts a transaction on a repo,    *)
(* writes one commit and commits the transaction; the repo is then         *)
(* reloaded at head (lib/tests/test_commit_concurrent.rs)                  *)
(*                                                                         *)
(* An operation is [kind, by, parents, heads, index]: its parents are      *)
(* operations, heads and index are those of its view. An operation stands  *)
(* for its own id.                                                         *)
(***************************************************************************)
NumTransactions == 3

Transactions == 1..NumTransactions

\* The root operation.
RootOperation == [kind |-> "root", by |-> 0, parents |-> {}, heads |-> {RootCommitId}, index |-> {RootCommitId}]

\* The working-copy commit of TestWorkspace::init, on top of the root commit.
InitialCommit == [parents |-> <<RootCommitId>>, root_tree |-> "tree1", change_id |-> "change2"]

\* The operation that checked out the initial commit.
InitialOperation ==
    [kind |-> "init", by |-> 0, parents |-> {RootOperation},
     heads |-> {InitialCommit}, index |-> {RootCommitId, InitialCommit}]

RECURSIVE OperationAncestors(_)
\* The operations of S and their ancestors.
OperationAncestors(S) ==
    LET ps == UNION {op.parents : op \in S}
    IN  IF ps \subseteq S THEN S ELSE OperationAncestors(S \cup ps)

\* dag_walk::heads of a set of operations.
OperationHeads(S) == {op \in S : \A other \in S \ {op} : op \notin OperationAncestors({other})}

\* The heads of a set of commits.
CommitHeads(S) == {h \in S : \A g \in S \ {h} : h \notin CommitAncestors({g})}

\* The heads after the changes from base to other are merged into the
\* heads of a view.
MergeViewHeads(heads, base, other) ==
    CommitHeads((heads \ (base.heads \ other.heads)) \cup (other.heads \ base.heads))

RECURSIVE MergeOperations(_, _, _)
\* The view of the first operation with the other operations merged in, one
\* after the other, each against the closest common ancestor operation.
MergeOperations(view, merged, others) ==
    IF others = {} THEN view
    ELSE LET other == CHOOSE op \in others : TRUE
             base == CHOOSE op \in OperationHeads(OperationAncestors(merged) \cap OperationAncestors({other})) : TRUE
         IN  MergeOperations([heads |-> MergeViewHeads(view.heads, base, other),
                              index |-> view.index \cup other.index],
                             merged \cup {other}, others \ {other})

\* The operation that reconciles divergent operations: its parents are all
\* the op heads.
MergedOperation(heads) ==
    LET first == CHOOSE op \in heads : TRUE
        view == MergeOperations([heads |-> first.heads, index |-> first.index], {first}, heads \ {first})
    IN  [kind |-> "merge", by |-> 0, parents |-> heads, heads |-> view.heads, index |-> view.index]

\* resolve_op_heads: the op heads without the ancestors of other op heads;
\* one operation is the head, several ones are merged.
ResolvedOperation(heads) ==
    IF Cardinality(OperationHeads(heads)) = 1
    THEN CHOOSE op \in OperationHeads(heads) : TRUE
    ELSE MergedOperation(OperationHeads(heads))

\* The repo loaded at an operation.
RepoAtOperation(operation) ==
    [loaded |-> TRUE, default_index |-> TRUE, index |-> operation.index,
     heads |-> operation.heads, predecessors |-> <<>>, parent_mapping |-> <<>>]

\* write_random_commit of a thread: a new commit on the root commit with a
\* tree and a change id that no other commit has.
RandomCommitBuilder(t) == for_new_commit(<<RootCommitId>>, "tree2", ToString(t))

\* Transaction::commit: the operation written, on the operation the
\* transaction was started at.
TransactionOperation(t, base, repo) ==
    [kind |-> "tx", by |-> t, parents |-> {base}, heads |-> repo.heads, index |-> repo.index]

\* OpHeadsStore::update_op_heads: the new operation is added, the old ones
\* are removed.
update_op_heads(heads, old_ids, new_id) == (heads \cup {new_id}) \ old_ids

\* No repo instance, no transaction.
NoTransaction == [pc |-> "new", base |-> RootOperation, repo |-> RepoAtOperation(RootOperation)]

\* A workspace was initialized; the threads share the repo instance that
\* was loaded then, or each gets an instance of its own.
InitTx ==
    /\ IdleCore
    /\ IdleMerge
    /\ IdlePrefix
    /\ IdleChangeId
    /\ IdleWc
    /\ IdleRewrite
    /\ IdleLate
    /\ op_heads = {InitialOperation}
    /\ commit_store = {RootCommitId, InitialCommit}
    /\ head_repo = NoQuery
    /\ \E instances \in BOOLEAN :
           transactions = [t \in Transactions |->
               IF instances THEN NoTransaction
               ELSE [pc |-> "loaded", base |-> InitialOperation, repo |-> RepoAtOperation(InitialOperation)]]

\* load_repo_at_head for a thread: the op heads are resolved, merged under
\* the lock of the op heads store if there are several.
LoadRepoAtHead(t) ==
    /\ transactions[t].pc = "new"
    /\ op_heads' = {ResolvedOperation(op_heads)}
    /\ transactions' = [transactions EXCEPT ![t] =
           [pc |-> "loaded", base |-> ResolvedOperation(op_heads),
            repo |-> RepoAtOperation(ResolvedOperation(op_heads))]]
    /\ UNCHANGED <<commit_store, head_repo, outsideTx>>

\* start_transaction and write_random_commit: the commit is written to the
\* store and added to the transaction's repo.
WriteRandomCommit(t) ==
    /\ transactions[t].pc = "loaded"
    /\ LET written == write(RandomCommitBuilder(t), transactions[t].repo, commit_store)
       IN  /\ written.result.ok
           /\ commit_store' = written.store
           /\ transactions' = [transactions EXCEPT ![t].pc = "written", ![t].repo = written.repo]
    /\ UNCHANGED <<op_heads, head_repo, outsideTx>>

\* tx.commit: the operation is written and the op heads are updated.
CommitTransaction(t) ==
    /\ transactions[t].pc = "written"
    /\ op_heads' = update_op_heads(op_heads, {transactions[t].base},
                                   TransactionOperation(t, transactions[t].base, transactions[t].repo))
    /\ transactions' = [transactions EXCEPT ![t].pc = "committed"]
    /\ UNCHANGED <<commit_store, head_repo, outsideTx>>

\* The threads have ended: the repo is reloaded at head.
ReloadAtHead ==
    /\ head_repo = NoQuery
    /\ \A t \in Transactions : transactions[t].pc = "committed"
    /\ op_heads' = {ResolvedOperation(op_heads)}
    /\ head_repo' = [op |-> "reload_at_head", operation |-> ResolvedOperation(op_heads),
                     heads |-> ResolvedOperation(op_heads).heads]
    /\ UNCHANGED <<commit_store, transactions, outsideTx>>

NextTx ==
    \/ \E t \in Transactions : LoadRepoAtHead(t) \/ WriteRandomCommit(t) \/ CommitTransaction(t)
    \/ ReloadAtHead

SpecTx == InitTx /\ [][NextTx]_vars

\* count_non_merge_operations
count_non_merge_operations(operation) ==
    Cardinality({op \in OperationAncestors({operation}) : Cardinality(op.parents) <= 1})

\* C17: after the transactions of all threads are committed and the repo is
\* reloaded at head, the commit of every transaction is a head, the heads
\* are these and the initial commit, and the operation log has one
\* non-merge operation per transaction besides the root operation and the
\* initial one.
C17_AllCommitsVisibleAfterReload ==
    head_repo # NoQuery =>
        /\ \A t \in Transactions : WrittenId(RandomCommitBuilder(t).commit) \in head_repo.heads
        /\ Cardinality(head_repo.heads) = NumTransactions + 1
        /\ count_non_merge_operations(head_repo.operation) = NumTransactions + 2
        /\ \A t \in Transactions :
               Cardinality({op \in OperationAncestors({head_repo.operation}) : op.kind = "tx" /\ op.by = t}) = 1

\* All the transactions were started at the same operation and the repo was
\* reloaded over their operations as op heads.
C17_Witness ==
    /\ head_repo # NoQuery
    /\ head_repo.operation.kind = "merge"
    /\ Cardinality(head_repo.operation.parents) = NumTransactions
    /\ \A t \in Transactions : transactions[t].base = InitialOperation

(***************************************************************************)
(* Concurrent checkout: workspace instances of one working copy            *)
(* (lib/tests/test_local_working_copy_concurrent.rs)                       *)
(***************************************************************************)
NumWorkspaces == 2

Workspaces == 1..NumWorkspaces

\* The tree of the initial working-copy commit.
EmptyTree == "tree0"

\* The trees of create_random_tree: no two are the same.
RandomTrees == {"tree1", "tree2", "tree3"}

\* old_tree_id: None
NoTree == [some |-> FALSE, tree |-> EmptyTree]

\* old_tree_id: Some(tree)
SomeTree(tree) == [some |-> TRUE, tree |-> tree]

\* A check_out that never takes the working copy for changed.
never_concurrent_checkout(old_tree_id, locked_old_tree_id) == FALSE

\* Workspace::check_out: the working-copy commit changed on disk compared to
\* what the caller expected.
concurrent_checkout(old_tree_id, locked_old_tree_id) ==
    old_tree_id.some /\ old_tree_id.tree # locked_old_tree_id

\* TestWorkspace::init and the instances loaded from it.
InitWc ==
    /\ IdleCore
    /\ IdleMerge
    /\ IdlePrefix
    /\ IdleChangeId
    /\ IdleTx
    /\ IdleRewrite
    /\ IdleLate
    /\ wc_disk = [tree_id |-> EmptyTree, written_by |-> 0, locked_by |-> 0]
    /\ workspaces = [w \in Workspaces |->
           [pc |-> "idle", tree_id |-> EmptyTree, old_tree_id |-> NoTree,
            new_tree_id |-> EmptyTree, result |-> "none"]]

\* Workspace::load: a new instance for the process reads the state on disk.
LoadWorkspace(w) ==
    /\ workspaces[w].pc = "idle"
    /\ workspaces' = [workspaces EXCEPT ![w] =
           [pc |-> "idle", tree_id |-> wc_disk.tree_id, old_tree_id |-> NoTree,
            new_tree_id |-> EmptyTree, result |-> "none"]]
    /\ UNCHANGED <<wc_disk, outsideWc>>

\* check_out is called for the commit of a tree, without an old tree id or
\* with the tree the instance takes for checked out.
CallCheckOut(w) ==
    /\ workspaces[w].pc = "idle"
    /\ \E tree \in RandomTrees :
       \E old_tree_id \in {NoTree, SomeTree(workspaces[w].tree_id)} :
           workspaces' = [workspaces EXCEPT ![w] =
               [pc |-> "called", tree_id |-> workspaces[w].tree_id, old_tree_id |-> old_tree_id,
                new_tree_id |-> tree, result |-> "none"]]
    /\ UNCHANGED <<wc_disk, outsideWc>>

\* start_working_copy_mutation: the lock is taken once it is free and the
\* state is read from disk.
StartWorkingCopyMutation(w) ==
    /\ workspaces[w].pc = "called"
    /\ wc_disk.locked_by = 0
    /\ wc_disk' = [wc_disk EXCEPT !.locked_by = w]
    /\ workspaces' = [workspaces EXCEPT ![w].pc = "locked", ![w].tree_id = wc_disk.tree_id]
    /\ UNCHANGED outsideWc

\* The old tree id is compared with the one on disk: the call fails and
\* leaves the working copy, or the tree is checked out and the state saved.
FinishCheckOut(w) ==
    /\ workspaces[w].pc = "locked"
    /\ wc_disk.locked_by = w
    /\ IF concurrent_checkout(workspaces[w].old_tree_id, workspaces[w].tree_id)
       THEN /\ wc_disk' = [wc_disk EXCEPT !.locked_by = 0]
            /\ workspaces' = [workspaces EXCEPT ![w].pc = "idle", ![w].result = "ConcurrentCheckout"]
       ELSE /\ wc_disk' = [tree_id |-> workspaces[w].new_tree_id, written_by |-> w, locked_by |-> 0]
            /\ workspaces' = [workspaces EXCEPT ![w] =
                   [pc |-> "idle", tree_id |-> workspaces[w].new_tree_id, old_tree_id |-> NoTree,
                    new_tree_id |-> EmptyTree, result |-> "Ok"]]
    /\ UNCHANGED outsideWc

NextWc ==
    \E w \in Workspaces :
        LoadWorkspace(w) \/ CallCheckOut(w) \/ StartWorkingCopyMutation(w) \/ FinishCheckOut(w)

SpecWc == InitWc /\ [][NextWc]_vars

\* C18: a check_out given the old tree id the instance read, after another
\* instance checked out another tree, ends with ConcurrentCheckout and
\* leaves the working copy at the tree of the other instance.
C18_StaleCheckOutFails ==
    [][\A w \in Workspaces :
           (/\ workspaces[w].pc = "locked"
            /\ workspaces'[w].pc = "idle"
            /\ workspaces[w].old_tree_id.some
            /\ workspaces[w].old_tree_id.tree # wc_disk.tree_id) =>
               /\ workspaces'[w].result = "ConcurrentCheckout"
               /\ wc_disk'.tree_id = wc_disk.tree_id
               /\ wc_disk.written_by \in Workspaces \ {w}]_vars

\* The check_out of the instance failed: the tree on disk is the one the
\* other instance checked out, not the old tree id the call was given.
C18_Witness ==
    \E w \in Workspaces :
        /\ workspaces[w].result = "ConcurrentCheckout"
        /\ workspaces[w].old_tree_id.tree \in RandomTrees
        /\ wc_disk.tree_id \in RandomTrees \ {workspaces[w].old_tree_id.tree, workspaces[w].new_tree_id}
        /\ wc_disk.written_by \in Workspaces \ {w}

(***************************************************************************)
(* absorb_hunks: the source, the destinations and their descendants are    *)
(* rewritten in topological order (lib/src/absorb.rs)                      *)
(*                                                                         *)
(* Commits are numbered 1..n, parents before children; 0 is the root       *)
(* commit. A tree is the set of the changes it holds: the commit i adds    *)
(* the change i, but the source, which adds its hunk k as the change -k.    *)
(***************************************************************************)
MaxRewriteCommits == 4

MaxSourceHunks == 2

\* The changes the commit adds to the tree of its parent.
OwnChanges(g, c) ==
    IF c = g.source THEN {-k : k \in 1..g.num_hunks} ELSE {c}

RECURSIVE OldTree(_, _)
\* The tree of a commit before the rewrite.
OldTree(g, c) == IF c = 0 THEN {} ELSE OldTree(g, g.parent[c]) \cup OwnChanges(g, c)

RECURSIVE IsRewriteAncestor(_, _, _)
\* a is c or an ancestor of c.
IsRewriteAncestor(g, a, c) ==
    \/ a = c
    \/ c # 0 /\ IsRewriteAncestor(g, a, g.parent[c])

\* The keys of selected_trees: the commits that hunks were selected for.
Destinations(g) == {g.selected[k] : k \in 1..g.num_hunks} \ {0}

\* transform_descendants: the roots and their descendants.
ToVisit(g) == {c \in 1..g.n : \E d \in Destinations(g) : IsRewriteAncestor(g, d, c)}

\* MergedTree::merge of trees of changes.
TreeMerge(left, base, right) == (left \ (base \ right)) \cup (right \ base)

RECURSIVE NewTreeOf(_, _, _)
\* The tree of the commit that stands for c after the rewrite so far: c
\* itself, its rewritten commit, or the new parent of an abandoned commit.
NewTreeOf(g, rw, c) ==
    IF c = 0 \/ rw.status[c] = "unvisited" THEN OldTree(g, c)
    ELSE IF rw.status[c] = "rewritten" THEN rw.new_tree[c]
    ELSE NewTreeOf(g, rw, g.parent[c])

\* An is_discardable that does not look at the description.
is_discardable_any_description(description_empty, tree, parent_tree) == tree = parent_tree

\* DetachedCommitBuilder::is_discardable: the description is empty and the
\* tree is that of the parents.
is_discardable(description_empty, tree, parent_tree) == description_empty /\ tree = parent_tree

\* The visit of c is recorded.
Visited(rw, c, status, tree) ==
    [rw EXCEPT !.status[c] = status, !.new_tree[c] = tree, !.visits[c] = @ + 1]

\* A source branch that leaves num_rebased alone.
SourceStepUncounted(g, rw) ==
    IF is_discardable(g.description_empty, OldTree(g, g.source), NewTreeOf(g, rw, g.parent[g.source]))
    THEN Visited(rw, g.source, "abandoned", {})
    ELSE [Visited(rw, g.source, "rewritten", OldTree(g, g.source))
             EXCEPT !.stats.rewritten_source = g.source]

\* absorb_hunks, the closure on the source commit: it is reparented, and
\* abandoned if discardable, written otherwise.
SourceStep(g, rw) ==
    IF is_discardable(g.description_empty, OldTree(g, g.source), NewTreeOf(g, rw, g.parent[g.source]))
    THEN Visited(rw, g.source, "abandoned", {})
    ELSE [Visited(rw, g.source, "rewritten", OldTree(g, g.source))
             EXCEPT !.stats.rewritten_source = g.source, !.stats.num_rebased = @ + 1]

\* rewriter.rebase(): the tree of the commit on its new parent.
RebasedTree(g, rw, c) ==
    TreeMerge(NewTreeOf(g, rw, g.parent[c]), OldTree(g, g.parent[c]), OldTree(g, c))

\* absorb_hunks, the closure on a commit without selected tree: rebased.
RebaseStep(g, rw, c) ==
    [Visited(rw, c, "rewritten", RebasedTree(g, rw, c)) EXCEPT !.stats.num_rebased = @ + 1]

\* The selected tree of a destination: the tree of the source's parent with
\* the hunks selected for the destination.
SelectedTree(g, c) ==
    OldTree(g, g.parent[g.source]) \cup {-k : k \in {h \in 1..g.num_hunks : g.selected[h] = c}}

\* absorb_hunks, the closure on a destination: the selected tree is taken
\* from the map and merged into the rebased commit.
DestinationStep(g, rw, c) ==
    [Visited(rw, c, "rewritten",
             TreeMerge(RebasedTree(g, rw, c), OldTree(g, g.parent[g.source]), SelectedTree(g, c)))
        EXCEPT !.selected_trees = @ \ {c},
               !.stats.rewritten_destinations = Append(@, c)]

\* absorb_hunks, the closure of transform_descendants.
RewriteStep(g, rw, c) ==
    IF c = g.source THEN SourceStep(g, rw)
    ELSE IF c \notin rw.selected_trees THEN RebaseStep(g, rw, c)
    ELSE DestinationStep(g, rw, c)

\* A graph of n commits with a source, its description, its hunks and the
\* destination selected for each hunk (0: none), a commit of the
\* destinations being an ancestor of the source other than the root.
InitRewrite ==
    /\ IdleCore
    /\ IdleMerge
    /\ IdlePrefix
    /\ IdleChangeId
    /\ IdleTx
    /\ IdleWc
    /\ IdleLate
    /\ \E n \in 1..MaxRewriteCommits :
       \E num_hunks \in 0..MaxSourceHunks :
       \E parent \in [1..n -> 0..(n - 1)] :
       \E source \in 1..n :
       \E empty \in BOOLEAN :
       \E selected \in [1..num_hunks -> 0..(n - 1)] :
           /\ \A c \in 1..n : parent[c] < c
           /\ absorb_source = [n |-> n, parent |-> parent, source |-> source,
                               description_empty |-> empty, num_hunks |-> num_hunks,
                               selected |-> selected]
    /\ \A d \in Destinations(absorb_source) :
           d # absorb_source.source /\ IsRewriteAncestor(absorb_source, d, absorb_source.source)
    /\ rewrite = [status |-> [c \in 1..absorb_source.n |-> "unvisited"],
                  new_tree |-> [c \in 1..absorb_source.n |-> {}],
                  visits |-> [c \in 1..absorb_source.n |-> 0],
                  selected_trees |-> Destinations(absorb_source),
                  stats |-> [rewritten_source |-> 0, rewritten_destinations |-> <<>>, num_rebased |-> 0],
                  returned |-> FALSE,
                  failed |-> FALSE]

\* A closure that is called again after it returned an error.
CallbackAfterError(rw) == ~rw.returned

\* transform_descendants(.., |rewriter| {..})?: the closure is called while
\* no call of it returned an error; the first error ends absorb_hunks.
CallbackCallable(rw) == ~rw.returned /\ ~rw.failed

\* The commit transform_descendants visits next: one whose parent is either
\* not to be visited or was visited.
IsNextToVisit(g, rw, c) ==
    /\ c \in ToVisit(g)
    /\ rw.status[c] = "unvisited"
    /\ g.parent[c] \in ToVisit(g) => rw.status[g.parent[c]] # "unvisited"

\* transform_descendants calls the closure on the next commit.
TransformNext ==
    /\ CallbackCallable(rewrite)
    /\ \E c \in ToVisit(absorb_source) :
           /\ IsNextToVisit(absorb_source, rewrite, c)
           /\ rewrite' = RewriteStep(absorb_source, rewrite, c)
    /\ UNCHANGED <<absorb_source, outsideRewrite>>

\* A backend read or write of the closure fails on the next commit
\* (is_discardable()?, rebase()?, write_tree()?, get_root_tree()?, merge()?,
\* write()?): the closure returns the error before the commit is recorded,
\* and what the earlier calls recorded in the repo is left as it is.
BackendError ==
    /\ CallbackCallable(rewrite)
    /\ \E c \in ToVisit(absorb_source) : IsNextToVisit(absorb_source, rewrite, c)
    /\ rewrite' = [rewrite EXCEPT !.failed = TRUE]
    /\ UNCHANGED <<absorb_source, outsideRewrite>>

\* Every commit was visited: absorb_hunks returns the AbsorbStats.
ReturnStats ==
    /\ CallbackCallable(rewrite)
    /\ \A c \in ToVisit(absorb_source) : rewrite.status[c] # "unvisited"
    /\ rewrite' = [rewrite EXCEPT !.returned = TRUE]
    /\ UNCHANGED <<absorb_source, outsideRewrite>>

NextRewrite == TransformNext \/ BackendError \/ ReturnStats

SpecRewrite == InitRewrite /\ [][NextRewrite]_vars

\* C19: with a destination, the source is visited once and reparented; it
\* is abandoned exactly if its description is empty and its tree is that of
\* its new parent, which is when every hunk of it was selected, and then
\* rewritten_source is None; otherwise it is written with its tree and
\* returned as rewritten_source.
C19_SourceAbandonedIffDiscardable ==
    (rewrite # NoQuery /\ rewrite.returned /\ Destinations(absorb_source) # {}) =>
        LET source == absorb_source.source
        IN  /\ rewrite.visits[source] = 1
            /\ rewrite.status[source] = "abandoned" <=>
                   /\ absorb_source.description_empty
                   /\ OldTree(absorb_source, source) = NewTreeOf(absorb_source, rewrite, absorb_source.parent[source])
            /\ rewrite.status[source] = "abandoned" <=>
                   /\ absorb_source.description_empty
                   /\ \A k \in 1..absorb_source.num_hunks : absorb_source.selected[k] # 0
            /\ rewrite.status[source] = "abandoned" => rewrite.stats.rewritten_source = 0
            /\ rewrite.status[source] # "abandoned" =>
                   /\ rewrite.status[source] = "rewritten"
                   /\ rewrite.stats.rewritten_source = source
                   /\ rewrite.new_tree[source] = OldTree(absorb_source, source)

\* The source was abandoned after all its hunks went to two destinations.
C19_Witness ==
    /\ rewrite # NoQuery
    /\ rewrite.returned
    /\ rewrite.status[absorb_source.source] = "abandoned"
    /\ Len(rewrite.stats.rewritten_destinations) = 2

\* The visited commits that are neither the source nor a destination.
MechanicallyRebased ==
    {c \in ToVisit(absorb_source) : c # absorb_source.source /\ c \notin Destinations(absorb_source)}

\* C20 as stated: num_rebased is the number of the visited commits that are
\* neither the source nor a destination.
C20_NumRebasedMechanicalOnly ==
    (rewrite # NoQuery /\ rewrite.returned) =>
        rewrite.stats.num_rebased = Cardinality(MechanicallyRebased)

\* C20: num_rebased is the number of the visited commits that are neither
\* the source nor a destination, and one more if the source was written
\* and not abandoned; destinations are not counted.
C20_NumRebasedCountsWrittenSource ==
    (rewrite # NoQuery /\ rewrite.returned) =>
        /\ rewrite.stats.num_rebased
               = Cardinality(MechanicallyRebased)
                 + (IF rewrite.stats.rewritten_source # 0 THEN 1 ELSE 0)
        /\ Len(rewrite.stats.rewritten_destinations) = Cardinality(Destinations(absorb_source))

\* The source was written, another commit was rebased, and a destination
\* was rewritten: num_rebased is 2.
C20_Witness ==
    /\ rewrite # NoQuery
    /\ rewrite.returned
    /\ rewrite.stats.rewritten_source # 0
    /\ Cardinality(MechanicallyRebased) = 1
    /\ rewrite.stats.num_rebased = 2
    /\ Len(rewrite.stats.rewritten_destinations) = 1

\* The commits the calls of the closure recorded in the mutable repo: the
\* rewritten ones (write) and the abandoned one (abandon).
RecordedInRepo == {c \in 1..absorb_source.n : rewrite.status[c] # "unvisited"}

\* C21 as stated: after a backend error nothing that the call did earlier
\* remains recorded in the mutable repo.
C21_ErrorLeavesNothingRecorded ==
    (rewrite # NoQuery /\ rewrite.failed) => RecordedInRepo = {}

\* C21: a backend error ends absorb_hunks at once: no AbsorbStats is
\* returned and no commit is visited after the error, so the commit of the
\* failed call and its descendants stay unvisited; the commits recorded by
\* the earlier calls of the closure stay recorded, each with every commit
\* to visit among its ancestors recorded before it.
C21_ErrorReturnedAtOnce ==
    (rewrite # NoQuery /\ rewrite.failed) =>
        /\ ~rewrite.returned
        /\ \E c \in ToVisit(absorb_source) : IsNextToVisit(absorb_source, rewrite, c)
        /\ RecordedInRepo \subseteq ToVisit(absorb_source)
        /\ \A c \in RecordedInRepo :
               /\ rewrite.visits[c] = 1
               /\ \A a \in ToVisit(absorb_source) :
                      IsRewriteAncestor(absorb_source, a, c) => a \in RecordedInRepo

\* The error came after a destination was rewritten and the source was
\* abandoned: both stay recorded while a descendant is not yet rebased.
C21_Witness ==
    /\ rewrite # NoQuery
    /\ rewrite.failed
    /\ Len(rewrite.stats.rewritten_destinations) = 1
    /\ rewrite.status[absorb_source.source] = "abandoned"
    /\ RecordedInRepo # ToVisit(absorb_source)

(***************************************************************************)
(* split_hunks_to_trees: the loop over the changed paths                   *)
(* (lib/src/absorb.rs)                                                     *)
(*                                                                         *)
(* A path is its place in the diff stream. The commits that                *)
(* split_file_hunks selects ranges for are an input of each entry.         *)
(***************************************************************************)
MaxPaths == 2

NumSplitCommits == 1

SplitCommits == 1..NumSplitCommits

\* MaterializedTreeValue, but Tree, which a tree diff does not yield
\* (to_file_value panics on it).
MaterializedTreeValues ==
    {"Absent", "AccessDenied", "File", "Symlink", "FileConflict", "OtherConflict", "GitSubmodule"}

\* Ok(Some(file)), Ok(None) and Err(reason) of to_file_value.
OkSome == [ok |-> TRUE, file |-> TRUE]

OkNone == [ok |-> TRUE, file |-> FALSE]

ErrReason(reason) == [ok |-> FALSE, reason |-> reason]

\* A to_file_value that takes a symlink for a file.
to_file_value_symlink_as_file(value) ==
    CASE value = "Absent" -> OkNone
      [] value = "AccessDenied" -> ErrReason("Access is denied")
      [] value = "File" -> OkSome
      [] value = "Symlink" -> OkSome
      [] value \in {"FileConflict", "OtherConflict"} -> ErrReason("Is a conflict")
      [] value = "GitSubmodule" -> ErrReason("Is a Git submodule")

\* to_file_value
to_file_value(value) ==
    CASE value = "Absent" -> OkNone
      [] value = "AccessDenied" -> ErrReason("Access is denied")
      [] value = "File" -> OkSome
      [] value = "Symlink" -> ErrReason("Is a symlink")
      [] value \in {"FileConflict", "OtherConflict"} -> ErrReason("Is a conflict")
      [] value = "GitSubmodule" -> ErrReason("Is a Git submodule")

\* selected_trees.skipped_paths.push((path, reason)); continue
PushSkipped(st, path, reason) ==
    [st EXCEPT !.skipped_paths = Append(@, <<path, reason>>), !.pos = @ + 1]

\* The body of the loop on one entry of the diff stream: the old value,
\* then the new value, then the tree builders of the selected commits.
SplitEntry(st, path, entry) ==
    LET left == to_file_value(entry.left)
        right == to_file_value(entry.right)
    IN  IF ~left.ok THEN PushSkipped(st, path, left.reason)
        ELSE IF ~left.file THEN [st EXCEPT !.pos = @ + 1]
        ELSE IF ~right.ok THEN PushSkipped(st, path, right.reason)
        ELSE [st EXCEPT !.pos = @ + 1,
                        !.target_commits =
                            [c \in SplitCommits |->
                                IF c \in entry.destinations THEN @[c] \cup {path} ELSE @[c]]]

\* SelectedTrees::default()
DefaultSelectedTrees ==
    [pos |-> 1, target_commits |-> [c \in SplitCommits |-> {}], skipped_paths |-> <<>>,
     result |-> "running"]

\* The entries of a tree diff: the two values of a changed path are not
\* both absent; ranges are selected only between two file contents.
DiffEntries ==
    {e \in [left : MaterializedTreeValues, right : MaterializedTreeValues,
            destinations : SUBSET SplitCommits] :
        /\ ~(e.left = "Absent" /\ e.right = "Absent")
        /\ e.destinations # {} => (e.left = "File" /\ e.right \in {"File", "Absent"})}

RECURSIVE DiffStreams(_)
\* The diff streams of the given number of entries.
DiffStreams(n) ==
    IF n = 0 THEN {<<>>}
    ELSE {Append(stream, e) : stream \in DiffStreams(n - 1), e \in DiffEntries}

InitSplit ==
    /\ IdleCore
    /\ IdleMid
    /\ IdleParse
    /\ IdleLcs
    /\ \E n \in 0..MaxPaths : diff_stream \in DiffStreams(n)
    /\ selected_trees = DefaultSelectedTrees

\* while let Some(entry) = diff_stream.next().await { .. }
SplitNextEntry ==
    /\ selected_trees.result = "running"
    /\ selected_trees.pos <= Len(diff_stream)
    /\ selected_trees' =
           SplitEntry(selected_trees, selected_trees.pos, diff_stream[selected_trees.pos])
    /\ UNCHANGED <<diff_stream, outsideSplit>>

\* A backend read or write fails on the entry (entry.values?, read_all()?,
\* annotator.compute()?, write_file()?): the function returns the error and
\* the SelectedTrees under construction is dropped.
SplitBackendError ==
    /\ selected_trees.result = "running"
    /\ selected_trees.pos <= Len(diff_stream)
    /\ selected_trees' = [DefaultSelectedTrees EXCEPT !.pos = selected_trees.pos, !.result = "Err"]
    /\ UNCHANGED <<diff_stream, outsideSplit>>

\* The stream is exhausted: Ok(selected_trees)
SplitReturn ==
    /\ selected_trees.result = "running"
    /\ selected_trees.pos > Len(diff_stream)
    /\ selected_trees' = [selected_trees EXCEPT !.result = "Ok"]
    /\ UNCHANGED <<diff_stream, outsideSplit>>

NextSplit == SplitNextEntry \/ SplitBackendError \/ SplitReturn

SpecSplit == InitSplit /\ [][NextSplit]_vars

\* The values absorb cannot split: access denied, symlink, conflict,
\* submodule.
Unsupported(value) == value \in MaterializedTreeValues \ {"Absent", "File"}

\* The paths with an old or a new value that cannot be split.
UnsupportedPaths ==
    {path \in 1..Len(diff_stream) :
        Unsupported(diff_stream[path].left) \/ Unsupported(diff_stream[path].right)}

\* The records of the path in skipped_paths.
SkippedRecords(path) ==
    {k \in 1..Len(selected_trees.skipped_paths) : selected_trees.skipped_paths[k][1] = path}

\* C22 as stated: every path with an old or new value that cannot be split
\* is recorded once in skipped_paths.
C22_UnsupportedPathRecordedOnce ==
    (selected_trees # NoQuery /\ selected_trees.result = "Ok") =>
        \A path \in UnsupportedPaths : Cardinality(SkippedRecords(path)) = 1

\* C22: split_hunks_to_trees returns Ok without a backend error, however
\* many values cannot be split; a path with such an old or new value is in
\* no destination tree; it is recorded once in skipped_paths, with the
\* reason of its old value or else of its new value, if its old value is
\* not absent, and not at all if its old value is absent (a new symlink,
\* say); the other paths are in the trees of the commits selected for them.
C22_UnsupportedPathSkipped ==
    (selected_trees # NoQuery /\ selected_trees.result = "Ok") =>
        /\ selected_trees.pos = Len(diff_stream) + 1
        /\ \A path \in UnsupportedPaths :
               LET entry == diff_stream[path]
               IN  /\ \A c \in SplitCommits : path \notin selected_trees.target_commits[c]
                   /\ Cardinality(SkippedRecords(path)) = (IF entry.left = "Absent" THEN 0 ELSE 1)
                   /\ \A k \in SkippedRecords(path) :
                          selected_trees.skipped_paths[k][2] =
                              (IF Unsupported(entry.left) THEN to_file_value(entry.left).reason
                               ELSE to_file_value(entry.right).reason)
        /\ \A path \in (1..Len(diff_stream)) \ UnsupportedPaths :
               /\ SkippedRecords(path) = {}
               /\ \A c \in SplitCommits :
                      path \in selected_trees.target_commits[c] <=>
                          c \in diff_stream[path].destinations

\* A file that became a symlink was skipped with its reason, and the file
\* after it went to the tree of a commit.
C22_Witness ==
    /\ selected_trees # NoQuery
    /\ selected_trees.result = "Ok"
    /\ Len(diff_stream) = 2
    /\ diff_stream[1].left = "File"
    /\ diff_stream[1].right = "Symlink"
    /\ selected_trees.skipped_paths = <<<<1, "Is a symlink">>>>
    /\ \E c \in SplitCommits : selected_trees.target_commits[c] = {2}

(***************************************************************************)
(* parse_conflict on marker regions as an editor may leave them: a start   *)
(* marker, a few lines, an end marker, alone or before a conflict that is  *)
(* as materialized.                                                        *)
(***************************************************************************)
MaxRegionLines == 4

\* A marker line of MIN_CONFLICT_MARKER_LEN characters.
MarkerLine(kind) == <<kind, kind, kind, kind, kind, kind, kind, "\n">>

\* The lines between the two markers: section markers of the three styles,
\* diff lines, a plain line and an empty line.
RegionLines ==
    {MarkerLine(kind) : kind \in {"%", "+", "-", "|", "="}}
    \cup {<<" ", "a", "\n">>, <<"-", "a", "\n">>, <<"+", "a", "\n">>, <<"a", "\n">>, <<"\n">>}

RECURSIVE RegionsOfLines(_)
\* The regions of n lines.
RegionsOfLines(n) ==
    IF n = 0 THEN {<<>>}
    ELSE {Append(region, line) : region \in RegionsOfLines(n - 1), line \in RegionLines}

\* The numbers of sides the caller may expect.
ExpectedSides == {2, 3}

\* The text of the region with its two markers.
RegionText(middle) == MarkerLine("<") \o Concat(middle) \o MarkerLine(">")

RECURSIVE SnapshotSections(_)
\* The section markers of a snapshot of empty files: one side, and a base
\* and a side for each further side.
SnapshotSections(num) ==
    IF num = 1 THEN MarkerLine("+")
    ELSE SnapshotSections(num - 1) \o MarkerLine("-") \o MarkerLine("+")

\* A conflict of num sides as materialize_jj_style_conflict writes it.
MaterializedRegion(num) == MarkerLine("<") \o SnapshotSections(num) \o MarkerLine(">")

InitParse ==
    /\ IdleCore
    /\ IdleMid
    /\ IdleSplit
    /\ IdleLcs
    /\ \E n \in 0..MaxRegionLines :
       \E middle \in RegionsOfLines(n) :
       \E num \in ExpectedSides :
           parse_input = [middle |-> middle, num |-> num]
    /\ parse_result = NoQuery

\* parse_conflict(content, num_sides, MIN_CONFLICT_MARKER_LEN) on the
\* region alone or on the region and a materialized conflict after it.
ParseConflict ==
    /\ parse_input # NoQuery
    /\ parse_result = NoQuery
    /\ \E followed \in BOOLEAN :
          LET content == RegionText(parse_input.middle)
                         \o (IF followed THEN MaterializedRegion(parse_input.num) ELSE <<>>)
          IN  parse_result' =
                  [followed |-> followed, content |-> content,
                   hunks |-> parse_conflict(content, parse_input.num, MIN_CONFLICT_MARKER_LEN)]
    /\ UNCHANGED <<parse_input, outsideParse>>

NextParse == ParseConflict

SpecParse == InitParse /\ [][NextParse]_vars

\* The marker of a line of the region.
RegionMarker(line) == parse_conflict_marker(line, MIN_CONFLICT_MARKER_LEN)

\* The section headers of JJ style among the lines of the region.
JjHeaders(middle) == {i \in 1..Len(middle) : RegionMarker(middle[i]) \in {"%", "+", "-"}}

\* The header of the section the line is in.
SectionHeader(middle, i) ==
    CHOOSE h \in JjHeaders(middle) : h <= i /\ \A g \in JjHeaders(middle) : g <= i => g <= h

\* The lines of the diff sections, their headers left out.
DiffSectionLines(middle) ==
    {i \in (1..Len(middle)) \ JjHeaders(middle) :
        RegionMarker(middle[SectionHeader(middle, i)]) = "%"}

\* A region of JJ style for num sides: num sides and num - 1 bases, a diff
\* section being a base and a side, and the lines of the diff sections
\* are legal.
JjWellFormed(middle, num, legal_lines) ==
    LET count(kind) == Cardinality({h \in JjHeaders(middle) : RegionMarker(middle[h]) = kind})
    IN  /\ count("+") + count("%") = num
        /\ count("-") + count("%") = num - 1
        /\ \A i \in DiffSectionLines(middle) : middle[i] \in legal_lines

\* A region of Git style: a side, one base marker, the base, one side
\* marker after it, and the other side; two sides only.
GitWellFormed(middle, num) ==
    LET bases == {i \in 1..Len(middle) : RegionMarker(middle[i]) = "|"}
        sides == {i \in 1..Len(middle) : RegionMarker(middle[i]) = "="}
    IN  /\ num = 2
        /\ Cardinality(bases) = 1
        /\ Cardinality(sides) = 1
        /\ \A b \in bases : \A e \in sides : b < e

\* The region is a conflict of num sides in one of the styles; the first
\* line tells the style.
WellFormed(middle, num, legal_lines) ==
    IF middle # <<>> /\ 1 \in JjHeaders(middle) THEN JjWellFormed(middle, num, legal_lines)
    ELSE GitWellFormed(middle, num)

\* The lines that start with a space, "+" or "-".
LinesWithDiffPrefix == {line \in RegionLines : line[1] \in {" ", "+", "-"}}

\* What parse_conflict returned is what the region being a conflict or not
\* asks for: None or the conflict for a region alone, and the region as a
\* resolved hunk or as a conflict before the conflict that follows.
ParsedAs(well_formed) ==
    LET hunks == parse_result.hunks
        num == parse_input.num
    IN  IF well_formed
        THEN /\ Len(hunks) = (IF parse_result.followed THEN 2 ELSE 1)
             /\ \A k \in 1..Len(hunks) : num_sides(hunks[k]) = num
        ELSE IF parse_result.followed
        THEN /\ Len(hunks) = 2
             /\ hunks[1] = <<RegionText(parse_input.middle)>>
             /\ num_sides(hunks[2]) = num
        ELSE hunks = <<>>

MaxPermLen == 5

\* The permutations of 0..n-1, as inputs of find_lcs.
PermutationsOf(n) ==
    {input \in [1..n -> 0..(n - 1)] : \A i, j \in 1..n : input[i] = input[j] => i = j}

InitLcs ==
    /\ IdleCore
    /\ IdleMid
    /\ IdleSplit
    /\ IdleParse
    /\ \E n \in 1..MaxPermLen : lcs_input \in PermutationsOf(n)
    /\ lcs_result = NoQuery

\* find_lcs(&input)
FindLcs ==
    /\ lcs_input # <<>>
    /\ lcs_result = NoQuery
    /\ lcs_result' = [pairs |-> find_lcs(lcs_input)]
    /\ UNCHANGED <<lcs_input, outsideLcs>>

NextLcs == FindLcs

SpecLcs == InitLcs /\ [][NextLcs]_vars

\* The right positions (from 1) of an increasing subsequence of the input.
IsIncreasing(input, places) ==
    \A i, j \in places : i < j => input[i] < input[j]

\* The length of the longest increasing subsequence of the input.
LongestIncreasing(input) ==
    LET lens == {Cardinality(places) :
                    places \in {ps \in SUBSET (1..Len(input)) : IsIncreasing(input, ps)}}
    IN  CHOOSE m \in lens : \A n \in lens : n <= m

\* C25: for a permutation of 0..n-1 find_lcs returns pairs (left_pos,
\* right_pos) with input[right_pos] = left_pos, strictly increasing in both
\* components, as many as the longest increasing subsequence of the input
\* is long: 1 for a reversed input.
C25_FindLcsLongestIncreasing ==
    lcs_result # NoQuery =>
        LET pairs == lcs_result.pairs
            n == Len(lcs_input)
        IN  /\ \A k \in 1..Len(pairs) :
                   /\ pairs[k][2] \in 0..(n - 1)
                   /\ lcs_input[pairs[k][2] + 1] = pairs[k][1]
            /\ \A k \in 1..(Len(pairs) - 1) :
                   /\ pairs[k][1] < pairs[k + 1][1]
                   /\ pairs[k][2] < pairs[k + 1][2]
            /\ Len(pairs) = LongestIncreasing(lcs_input)
            /\ (\A i \in 1..n : lcs_input[i] = n - i) => Len(pairs) = 1

\* The longest chain of 5 positions has 3 of them, and it skips a
\* position that a shorter chain ends at.
C25_Witness ==
    /\ lcs_result # NoQuery
    /\ Len(lcs_input) = 5
    /\ Len(lcs_result.pairs) = 3
    /\ \E k \in 1..2 : lcs_result.pairs[k + 1][2] > lcs_result.pairs[k][2] + 1

(***************************************************************************)
(* CompositeIndex::heads_from_range_and_filter                             *)
(* (lib/src/default_index/composite.rs)                                    *)
(***************************************************************************)
RECURSIVE shift_to_parents_above(_, _)
\* A shift that stops above the target position and so never matches it.
shift_to_parents_above(queue, target_pos) ==
    IF queue = <<>> \/ Head(queue) <= target_pos
    THEN [queue |-> queue, matched |-> FALSE]
    ELSE shift_to_parents_above(shift_to_parents(queue, Head(queue)), target_pos)

RECURSIVE shift_to_parents_until(_, _)
\* shift_to_parents_until: the queue is shifted while its greatest position
\* is at or above the target; matched if the target was in the queue.
shift_to_parents_until(queue, target_pos) ==
    IF queue = <<>> \/ Head(queue) < target_pos
    THEN [queue |-> queue, matched |-> FALSE]
    ELSE LET pos == Head(queue)
             shifted == shift_to_parents(queue, pos)
         IN  IF pos = target_pos THEN [queue |-> shifted, matched |-> TRUE]
             ELSE shift_to_parents_until(shifted, target_pos)

\* One turn of the `while let Some(&pos) = wanted_queue.peek()` loop; the
\* filter is called, and answers `accepted`, if pos is not unwanted.
HeadsFromRangeStep(st, accepted) ==
    LET pos == Head(st.wanted_queue)
        until == shift_to_parents_until(st.unwanted_queue, pos)
    IN  IF until.matched
        THEN [st EXCEPT !.wanted_queue = dedup_pop(@), !.unwanted_queue = until.queue]
        ELSE IF accepted
        THEN [st EXCEPT !.wanted_queue = dedup_pop(@),
                        !.unwanted_queue =
                            HeapExtend(until.queue, SetToAscSeq(ParentPositions(pos))),
                        !.found_heads = Append(@, pos),
                        !.filter_calls = Append(@, pos)]
        ELSE [st EXCEPT !.wanted_queue = shift_to_parents(@, pos),
                        !.unwanted_queue = until.queue,
                        !.filter_calls = Append(@, pos)]

RECURSIVE HeadsFromRangeLoop(_, _)
\* The loop, with the filter as the set of the positions it accepts.
HeadsFromRangeLoop(st, filter) ==
    IF st.wanted_queue = <<>> THEN st
    ELSE HeadsFromRangeLoop(HeadsFromRangeStep(st, Head(st.wanted_queue) \in filter), filter)

\* The queues and the result before the loop.
HeadsFromRangeStart(roots, heads) ==
    [wanted_queue |-> HeapFrom(heads), unwanted_queue |-> HeapFrom(roots),
     found_heads |-> <<>>, filter_calls |-> <<>>]

\* heads_from_range_and_filter with a filter that does not fail: the heads
\* found and the positions the filter was called with, in order.
heads_from_range_and_filter(roots, heads, filter) ==
    IF heads = <<>> THEN [HeadsFromRangeStart(roots, heads) EXCEPT !.found_heads = heads]
    ELSE HeadsFromRangeLoop(HeadsFromRangeStart(roots, heads), filter)

HeadsFromRangeQuery ==
    /\ query = NoQuery
    /\ UNCHANGED outsideIndex
    /\ \E roots \in PositionVecs, heads \in PositionVecs, filter \in SUBSET Positions :
          LET r == heads_from_range_and_filter(roots, heads, filter)
          IN  query' = [op |-> "heads_from_range", roots |-> roots, heads |-> heads,
                        filter |-> filter, result |-> r.found_heads,
                        filter_calls |-> r.filter_calls]
    /\ UNCHANGED <<parent_positions, generation_number>>

NextRange ==
    \/ \E ps \in SUBSET Positions : AddCommit(ps)
    \/ HeadsFromRangeQuery

SpecRange == InitIndex /\ [][NextRange]_vars

\* The positions in the range roots..heads that the filter accepts.
AcceptedInRange(roots, heads, filter) ==
    (AncestorsOrSelf(SeqToSet(heads)) \ AncestorsOrSelf(SeqToSet(roots))) \cap filter

\* C26: heads_from_range_and_filter returns, in descending order, exactly
\* the positions that are an ancestor-or-self of a head, not an
\* ancestor-or-self of a root, accepted by the filter, and without a
\* descendant of that kind; the filter is called with strictly descending
\* positions, so at most once with each.
C26_HeadsOfFilteredRange ==
    query.op = "heads_from_range" =>
        LET accepted == AcceptedInRange(query.roots, query.heads, query.filter)
        IN  /\ SeqToSet(query.result) =
                   {p \in accepted : \A d \in accepted : ~ProperAncestor(p, d)}
            /\ StrictlyDescending(query.result)
            /\ StrictlyDescending(query.filter_calls)

\* A head the filter rejects gives way to its two parents, one of which is
\* an ancestor of a root: the other parent is the head of the range.
C26_Witness ==
    /\ query.op = "heads_from_range"
    /\ Len(query.heads) = 1
    /\ Len(query.roots) = 1
    /\ query.heads[1] \notin query.filter
    /\ Cardinality(ParentPositions(query.heads[1])) = 2
    /\ Len(query.result) = 1
    /\ query.result[1] \in ParentPositions(query.heads[1])
    /\ Len(query.filter_calls) = 2

(***************************************************************************)
(* The ancestry walks of the index, one loop iteration at a time           *)
(* (lib/src/default_index/composite.rs). While a walk runs, `query` holds   *)
(* the locals of its loop and what the last iteration did.                 *)
(***************************************************************************)
\* What one loop iteration did: the position it removed, the greatest
\* position of the heap or work list it was removed from, the positions it
\* added, and whether an assertion of shift_to_parents failed.
NoStep == [removed |-> -1, greatest |-> -1, added |-> <<>>, panicked |-> FALSE]

\* assert!(parent_pos < entry.position()), for every parent of the entry
ParentsBelow(pos) == \A p \in ParentPositions(pos) : p < pos

\* An iteration that calls shift_to_parents(items, entry_by_pos(pos)).
ShiftStep(items, pos) ==
    [removed |-> pos, greatest |-> Head(items),
     added |-> SetToAscSeq(ParentPositions(pos)), panicked |-> ~ParentsBelow(pos)]

\* An iteration that calls dedup_pop(items) alone.
PopStep(items) ==
    [removed |-> Head(items), greatest |-> Head(items), added |-> <<>>, panicked |-> FALSE]

\* A read of the last item of the work list that leaves it in place.
VecLast(work) == [item |-> work[Len(work)], rest |-> work]

\* Vec::pop on a non-empty vector: the last item and the items before it.
VecPop(work) == [item |-> work[Len(work)], rest |-> SubSeq(work, 1, Len(work) - 1)]

\* The greatest item of a non-empty vector.
VecMax(work) == SetMax(SeqToSet(work))

\* heads_pos(candidate_positions) before its first iteration, called for
\* the query `op` with the arguments `args`.
HeadsStart(op, args, candidate_positions, last) ==
    [op |-> op, phase |-> "heads_pos", args |-> args,
     candidates |-> candidate_positions, parents |-> <<>>, heads |-> <<>>,
     min_generation |->
         IF candidate_positions = <<>> THEN 0
         ELSE SetMin({GenerationNumber(candidate_positions[i]) :
                          i \in 1..Len(candidate_positions)}),
     returned |-> FALSE, result |-> <<>>, last |-> last]

\* The exit of the loop the walk stands in, when its condition fails: the
\* function returns, or common_ancestors_pos goes on to heads_pos(result).
LoopExit(q) ==
    IF q.returned THEN q
    ELSE IF q.phase = "is_ancestor_pos"
    THEN IF q.work = <<>> THEN [q EXCEPT !.returned = TRUE, !.result = FALSE] ELSE q
    ELSE IF q.phase = "common_ancestors_pos"
    THEN IF q.items1 = <<>> \/ q.items2 = <<>>
         THEN LET h == HeadsStart(q.op, q.args, q.result, q.last)
              IN  IF h.candidates = <<>> THEN [h EXCEPT !.returned = TRUE] ELSE h
         ELSE q
    ELSE IF q.phase = "heads_pos"
    THEN IF q.candidates = <<>> THEN [q EXCEPT !.returned = TRUE, !.result = q.heads] ELSE q
    ELSE IF q.wanted_queue = <<>>
         THEN [q EXCEPT !.returned = TRUE, !.result = q.found_heads]
         ELSE q

\* One iteration of `while let Some(descendant_pos) = work.pop()`.
IsAncestorIteration(q) ==
    LET popped == VecPop(q.work)
        descendant_pos == popped.item
        parents == SetToAscSeq(ParentPositions(descendant_pos))
        step == [removed |-> descendant_pos, greatest |-> VecMax(q.work),
                 added |-> <<>>, panicked |-> FALSE]
    IN  IF descendant_pos = q.args[1]
        THEN [q EXCEPT !.work = popped.rest, !.returned = TRUE, !.result = TRUE,
                       !.last = step]
        ELSE IF descendant_pos \in q.visited
        THEN [q EXCEPT !.work = popped.rest, !.last = step]
        ELSE IF PruneByGeneration(GenerationNumber(descendant_pos),
                                  GenerationNumber(q.args[1]))
        THEN [q EXCEPT !.work = popped.rest, !.visited = @ \cup {descendant_pos},
                       !.last = step]
        ELSE [q EXCEPT !.work = popped.rest \o parents,
                       !.visited = @ \cup {descendant_pos},
                       !.last = [step EXCEPT !.added = parents]]

\* One iteration of the lockstep loop of common_ancestors_pos.
CommonAncestorsIteration(q) ==
    LET pos1 == Head(q.items1)
        pos2 == Head(q.items2)
    IN  IF pos1 > pos2
        THEN [q EXCEPT !.items1 = shift_to_parents(q.items1, pos1),
                       !.last = ShiftStep(q.items1, pos1)]
        ELSE IF pos1 < pos2
        THEN [q EXCEPT !.items2 = shift_to_parents(q.items2, pos2),
                       !.last = ShiftStep(q.items2, pos2)]
        ELSE [q EXCEPT !.items1 = dedup_pop(q.items1), !.items2 = dedup_pop(q.items2),
                       !.result = Append(@, pos1), !.last = PopStep(q.items1)]

\* One iteration of heads_pos: of the inner `while let Some(&parent)` loop
\* when its condition holds, else the rest of the body of the `for` loop,
\* which takes the candidate from the candidate list.
HeadsIteration(q) ==
    LET candidate == Head(q.candidates)
    IN  IF q.parents # <<>> /\ Head(q.parents) >= candidate
        THEN LET parent == Head(q.parents)
                 below == BelowMinGeneration(GenerationNumber(parent), q.min_generation)
             IN  [q EXCEPT !.parents = IF below THEN dedup_pop(q.parents)
                                       ELSE shift_to_parents(q.parents, parent),
                           !.candidates = IF parent = candidate THEN Tail(@) ELSE @,
                           !.last = IF below THEN PopStep(q.parents)
                                    ELSE ShiftStep(q.parents, parent)]
        ELSE [q EXCEPT !.parents = HeapExtend(@, SetToAscSeq(ParentPositions(candidate))),
                       !.heads = Append(@, candidate),
                       !.candidates = Tail(@),
                       !.last = [removed |-> candidate, greatest |-> VecMax(q.candidates),
                                 added |-> SetToAscSeq(ParentPositions(candidate)),
                                 panicked |-> FALSE]]

\* One iteration of heads_from_range_and_filter: of the loop of
\* shift_to_parents_until(&mut unwanted_queue, self, pos) when its condition
\* holds, else the rest of the body with the answer of filter(pos).
HeadsFromRangeIteration(q, answer) ==
    LET pos == Head(q.wanted_queue)
    IN  IF q.unwanted_queue # <<>> /\ Head(q.unwanted_queue) >= pos
        THEN LET upos == Head(q.unwanted_queue)
             IN  [q EXCEPT !.unwanted_queue = shift_to_parents(q.unwanted_queue, upos),
                           !.wanted_queue = IF upos = pos THEN dedup_pop(@) ELSE @,
                           !.last = ShiftStep(q.unwanted_queue, upos)]
        ELSE IF answer = "Err"
        THEN [q EXCEPT !.returned = TRUE, !.result = "Err", !.last = NoStep]
        ELSE IF answer = "Ok(true)"
        THEN [q EXCEPT !.wanted_queue = dedup_pop(q.wanted_queue),
                       !.unwanted_queue =
                           HeapExtend(@, SetToAscSeq(ParentPositions(pos))),
                       !.found_heads = Append(@, pos),
                       !.last = [removed |-> pos, greatest |-> pos,
                                 added |-> SetToAscSeq(ParentPositions(pos)),
                                 panicked |-> FALSE]]
        ELSE [q EXCEPT !.wanted_queue = shift_to_parents(q.wanted_queue, pos),
                       !.last = ShiftStep(q.wanted_queue, pos)]

\* The index is borrowed for the length of a call: it grows between calls.
AddCommitBetweenCalls(ps) == query = NoQuery /\ AddCommit(ps)

CallIsAncestorPos ==
    /\ query = NoQuery
    /\ UNCHANGED outsideIndex
    /\ \E ancestor_pos \in Positions, descendant_pos \in Positions :
          query' = [op |-> "is_ancestor_pos", phase |-> "is_ancestor_pos",
                    args |-> <<ancestor_pos, descendant_pos>>,
                    work |-> <<descendant_pos>>, visited |-> {},
                    returned |-> FALSE, result |-> FALSE, last |-> NoStep]
    /\ UNCHANGED <<parent_positions, generation_number>>

CallCommonAncestorsPos ==
    /\ query = NoQuery
    /\ UNCHANGED outsideIndex
    /\ \E set1 \in PositionVecs, set2 \in PositionVecs :
          query' = LoopExit([op |-> "common_ancestors_pos", phase |-> "common_ancestors_pos",
                             args |-> <<set1, set2>>,
                             items1 |-> HeapFrom(set1), items2 |-> HeapFrom(set2),
                             returned |-> FALSE, result |-> <<>>, last |-> NoStep])
    /\ UNCHANGED <<parent_positions, generation_number>>

\* The candidates of heads_pos are sorted in descending order and have no
\* duplicates (its debug_assert).
CallHeadsPos ==
    /\ query = NoQuery
    /\ UNCHANGED outsideIndex
    /\ \E S \in SUBSET Positions :
          query' = LoopExit(HeadsStart("heads_pos", <<SetToDescSeq(S)>>,
                                       SetToDescSeq(S), NoStep))
    /\ UNCHANGED <<parent_positions, generation_number>>

CallHeadsFromRangeAndFilter ==
    /\ query = NoQuery
    /\ UNCHANGED outsideIndex
    /\ \E roots \in PositionVecs, heads \in PositionVecs :
          query' = LoopExit([op |-> "heads_from_range_and_filter",
                             phase |-> "heads_from_range_and_filter",
                             args |-> <<roots, heads>>,
                             wanted_queue |-> HeapFrom(heads),
                             unwanted_queue |-> HeapFrom(roots), found_heads |-> <<>>,
                             returned |-> FALSE, result |-> <<>>, last |-> NoStep])
    /\ UNCHANGED <<parent_positions, generation_number>>

\* The call in `query` has not returned.
Running == query # NoQuery /\ ~query.returned

IsAncestorLoopStep ==
    /\ Running
    /\ query.phase = "is_ancestor_pos"
    /\ query' = LoopExit(IsAncestorIteration(query))
    /\ UNCHANGED <<parent_positions, generation_number, outsideIndex>>

CommonAncestorsLoopStep ==
    /\ Running
    /\ query.phase = "common_ancestors_pos"
    /\ query' = LoopExit(CommonAncestorsIteration(query))
    /\ UNCHANGED <<parent_positions, generation_number, outsideIndex>>

HeadsLoopStep ==
    /\ Running
    /\ query.phase = "heads_pos"
    /\ query' = LoopExit(HeadsIteration(query))
    /\ UNCHANGED <<parent_positions, generation_number, outsideIndex>>

HeadsFromRangeLoopStep ==
    /\ Running
    /\ query.phase = "heads_from_range_and_filter"
    /\ \E answer \in {"Ok(true)", "Ok(false)", "Err"} :
          query' = LoopExit(HeadsFromRangeIteration(query, answer))
    /\ UNCHANGED <<parent_positions, generation_number, outsideIndex>>

WalkStep ==
    \/ IsAncestorLoopStep
    \/ CommonAncestorsLoopStep
    \/ HeadsLoopStep
    \/ HeadsFromRangeLoopStep

NextWalk ==
    \/ \E ps \in SUBSET Positions : AddCommitBetweenCalls(ps)
    \/ CallIsAncestorPos
    \/ CallCommonAncestorsPos
    \/ CallHeadsPos
    \/ CallHeadsFromRangeAndFilter
    \/ WalkStep

SpecWalk == InitIndex /\ [][NextWalk]_vars

\* A call that was made goes on: its thread is not stopped for ever
\* between two iterations.
SpecWalkFair == SpecWalk /\ WF_vars(WalkStep)

\* The last iteration failed no assertion and added only positions smaller
\* than the one it removed.
AddedOnlySmaller ==
    query # NoQuery =>
        /\ ~query.last.panicked
        /\ \A i \in 1..Len(query.last.added) : query.last.added[i] < query.last.removed

\* The last iteration removed the greatest position of the heap or work
\* list it took it from.
RemovedGreatest == query # NoQuery => query.last.removed = query.last.greatest

\* An iteration of is_ancestor_pos takes one position off the work list
\* and leaves the rest of it in place.
WorkListShrinks ==
    IsAncestorLoopStep =>
        /\ Len(query'.work) = Len(query.work) - 1 + Len(query'.last.added)
        /\ SubSeq(query'.work, 1, Len(query.work) - 1)
               = SubSeq(query.work, 1, Len(query.work) - 1)

\* C30 as stated: every loop step of the four walks removes the greatest
\* position of its heap or work list.
C30_EveryStepRemovesGreatest == RemovedGreatest

\* C30: on an index in which each parent position is smaller than its
\* child's, is_ancestor_pos, common_ancestors_pos, heads_pos and
\* heads_from_range_and_filter return for all inputs, duplicates included;
\* each loop step removes a position and adds only smaller positions, the
\* position removed being the greatest of its heap or candidate list in the
\* three heap walks and the one pushed last in is_ancestor_pos; and no
\* assertion of shift_to_parents fails.
C30_WalksTerminate ==
    /\ [](AddedOnlySmaller
            /\ ((query # NoQuery /\ query.phase # "is_ancestor_pos") => RemovedGreatest))
    /\ [][WorkListShrinks]_vars
    /\ (Running ~> (query # NoQuery /\ query.returned))

\* A common_ancestors_pos call with a duplicate position in each set has
\* returned a common ancestor, after an iteration that replaced a merge by
\* its two parents and later ones in heads_pos.
C30_Witness ==
    /\ query # NoQuery
    /\ query.op = "common_ancestors_pos"
    /\ query.returned
    /\ \A k \in 1..2 : Len(query.args[k]) = 2 /\ query.args[k][1] = query.args[k][2]
    /\ query.args[1] # query.args[2]
    /\ Cardinality(ParentPositions(query.args[1][1])) = 2
    /\ query.result # <<>>
    /\ query.last.removed # -1

====
